---- MODULE Spec2Model ----
(***************************************************************************)
(* Semantic-index configuration engine and dual-mode memory client.        *)
(*                                                                         *)
(* Several state machines share this module:                               *)
(*   Spec        the Mem0 dual-mode client (services/mem0/client.ts with   *)
(*               its Mem0ConfigManager, services/mem0/config.ts);          *)
(*   LocalSpec   the same client with a Qdrant configuration, so that its  *)
(*               local mode reaches the embedder and the vector store;     *)
(*   ConfigSpec  the ReferenceIndexConfigManager                           *)
(*               (services/reference-index/config-manager.ts);             *)
(*   FactorySpec the CodeIndexServiceFactory                               *)
(*               (services/code-index/service-factory.ts);                 *)
(*   PipelineSpec  settings edits and reloads with the services rebuilt    *)
(*               whenever a reload asks for a restart;                     *)
(*   VectorStoreSpec  the Mem0QdrantClient and the local store and search  *)
(*               of the memory client, against a Qdrant collection;        *)
(*   KeySpec     Mem0ConfigManager.isValidApiKey over key strings.         *)
(*   ReloadSpec  the ReferenceIndexConfigManager with loadConfiguration    *)
(*               suspended at its await while the manager is read;         *)
(*   SetupSpec   the client of LocalSpec configured repeatedly, with the   *)
(*               Qdrant configuration and the embedder of each call kept;  *)
(*   UpdateSpec  Mem0ConfigManager.updateConfig over partial updates;      *)
(*   InitializeSpec  Mem0QdrantClient.initialize with each of its server   *)
(*               requests failing, InitializeFairSpec the same under       *)
(*               repeated calls that the server answers;                   *)
(*   IsolationSpec  local store, search and list for two users and two     *)
(*               agents;                                                   *)
(*   ToolSpec    the add_memory tool (addMemoryTool) over the client of    *)
(*               Spec;                                                     *)
(*   EnvSpec     the client under every setting of the MEM0_* environment  *)
(*               variables, with base URLs ending in up to two slashes.    *)
(*                                                                         *)
(* JavaScript values.  A URL string is a sequence of tokens: "/" is the    *)
(* slash character, every other token is a non-empty run of characters     *)
(* that does not end in a slash.  An API key string is stored run-length   *)
(* encoded, as a sequence of runs [c, n] (n times the character c), and    *)
(* Expand gives its characters.  An optional value is a sequence of length *)
(* at most one: <<>> is undefined, <<v>> is v.                             *)
(***************************************************************************)
EXTENDS Integers, Sequences, FiniteSets, TLC

VARIABLES
    env,            \* process.env: MEM0_API_KEY, MEM0_BASE_URL, MEM0_MODE
    configManager,  \* client.ts `configManager`: <<>> (null) or <<Mem0Config>>
    qdrantClient,   \* client.ts `qdrantClient`: 0 (null) or the id of the client object
    embedder,       \* client.ts `embedder`: FALSE (null) or TRUE (an IEmbedder)
    inits,          \* inits[i]: state of the initializeLocalMode() promise of client i
    pending,        \* <<>> or <<op>>: a local search/store suspended in createEmbeddings
    last,           \* what the most recent completed call of the public surface did
                    \* (in InitializeSpec of initialize(), in ToolSpec of the tool)
    lastSetup,      \* history, kept by SetupSpec: <<>> or <<what the most recent
                    \* configureMem0 call was given for its local mode>>
    store,          \* ContextProxy: the persisted referenceIndex settings and secrets
    mgr,            \* the fields of the ReferenceIndexConfigManager instance
    edits,          \* settings changes made so far
    cfgLast,        \* what the most recent call on the config manager did
    loading,        \* the loadConfiguration() calls suspended in refreshSecrets()
    factory,        \* what the most recent call on the service factory did
    pipeline,       \* <<>> or <<the services the running pipeline was built as>>
    collection,     \* Qdrant: <<>> or <<the memory collection: size, distance, points>>
    embeddingDimension, \* length of the vectors the local embedder returns
    vsLast          \* what the most recent call on the vector store adapter did

mem0Vars == <<env, configManager, qdrantClient, embedder, inits, pending, last, lastSetup>>
cfgVars == <<store, mgr, edits, cfgLast, loading>>
factoryVars == <<factory, pipeline>>
storeVars == <<collection, embeddingDimension, vsLast>>

vars == <<mem0Vars, cfgVars, factoryVars, storeVars>>

(***************************************************************************)
(* Bounds                                                                  *)
(***************************************************************************)
MaxClients == 1     \* Mem0QdrantClient objects constructed in one run
MaxEdits == 2       \* settings changes in one run of the config manager

(***************************************************************************)
(* Option values and strings                                               *)
(***************************************************************************)
None == <<>>
Some(v) == <<v>>
IsSome(o) == o # <<>>

EmptyString == <<>>
Slash == "/"

\* JavaScript truthiness of an optional string: defined and not "".
Truthy(o) == IsSome(o) /\ o[1] # EmptyString

\* Run-length encoded strings.
Run(c, n) == [c |-> c, n |-> n]
Str(chars) == [i \in 1..Len(chars) |-> Run(chars[i], 1)]

RECURSIVE Expand(_)
Expand(s) ==
    IF s = <<>> THEN <<>>
    ELSE [i \in 1..s[1].n |-> s[1].c] \o Expand(Tail(s))


(***************************************************************************)
(* services/mem0/config.ts                                                 *)
(***************************************************************************)
Alnum ==
    { "a","b","c","d","e","f","g","h","i","j","k","l","m","n","o","p","q","r","s",
      "t","u","v","w","x","y","z",
      "A","B","C","D","E","F","G","H","I","J","K","L","M","N","O","P","Q","R","S",
      "T","U","V","W","X","Y","Z",
      "0","1","2","3","4","5","6","7","8","9" }

Mem0Prefix == <<"m", "e", "m", "0", "-">>
KeyBodyLen == 52

\* The expression without its end anchor: /^mem0-[a-zA-Z0-9]{52}/
MEM0_API_KEY_REGEX_Unanchored(s) ==
    LET e == Expand(s)
    IN  /\ Len(e) >= Len(Mem0Prefix) + KeyBodyLen
        /\ SubSeq(e, 1, Len(Mem0Prefix)) = Mem0Prefix
        /\ \A i \in (Len(Mem0Prefix) + 1)..(Len(Mem0Prefix) + KeyBodyLen) : e[i] \in Alnum

\* MEM0_API_KEY_REGEX.test(s): /^mem0-[a-zA-Z0-9]{52}$/
MEM0_API_KEY_REGEX(s) ==
    LET e == Expand(s)
    IN  /\ Len(e) = Len(Mem0Prefix) + KeyBodyLen
        /\ SubSeq(e, 1, Len(Mem0Prefix)) = Mem0Prefix
        /\ \A i \in (Len(Mem0Prefix) + 1)..Len(e) : e[i] \in Alnum

\* The key strings of the model: a well-formed key and one a character short.
ValidKey == Str(Mem0Prefix) \o <<Run("a", KeyBodyLen)>>
ShortKey == Str(Mem0Prefix) \o <<Run("a", KeyBodyLen - 1)>>

\* Key strings by shape: a prefix, then a body of n times one character,
\* with or without one other character put in place of the body's
\* character number `at` + 1.
KeyPrefixes ==
    { Mem0Prefix, <<"M", "E", "M", "0", "-">>, <<"m", "e", "m", "0", "_">>,
      <<"m", "e", "m", "0">>, <<"a", "p", "i", "-">>, <<" ", "m", "e", "m", "0", "-">> }
KeyShapes ==
    { d \in [ prefix : KeyPrefixes,
              char : {"a", "Z", "7", "!"},
              n : {0, KeyBodyLen - 1, KeyBodyLen, KeyBodyLen + 1},
              bad : {None} \cup [ char : {"!", "_", " "}, at : {0, 25, KeyBodyLen - 1} ] ] :
        d.bad # None => (d.n >= KeyBodyLen /\ d.char # "!") }
KeyOfShape(d) ==
    Str(d.prefix) \o
        (IF d.bad = None THEN <<Run(d.char, d.n)>>
         ELSE <<Run(d.char, d.bad.at), Run(d.bad.char, 1), Run(d.char, d.n - d.bad.at - 1)>>)

KeyStrings == {EmptyString, ValidKey, ShortKey} \cup { KeyOfShape(d) : d \in KeyShapes }

\* The regular expression's verdict on each key string, evaluated once.
RegexVerdict == [s \in KeyStrings |-> MEM0_API_KEY_REGEX(s)]

DEFAULT_CONFIG ==
    [ enabled |-> FALSE,
      mode    |-> "local",
      baseUrl |-> Some(<<"http://localhost:4321">>),
      apiKey  |-> None ]

loadFromEnvironment_KeyKeepsMode(cfg, e) ==
    LET c1 == IF Truthy(e.MEM0_API_KEY) THEN [cfg EXCEPT !.apiKey = e.MEM0_API_KEY] ELSE cfg
        c2 == IF Truthy(e.MEM0_BASE_URL) THEN [c1 EXCEPT !.baseUrl = e.MEM0_BASE_URL] ELSE c1
    IN  IF IsSome(e.MEM0_MODE) /\ e.MEM0_MODE[1] \in {"local", "hosted"}
        THEN [c2 EXCEPT !.mode = e.MEM0_MODE[1]]
        ELSE c2

\* Mem0ConfigManager.loadFromEnvironment, applied to the config it starts from.
loadFromEnvironment(cfg, e) ==
    LET c1 == IF Truthy(e.MEM0_API_KEY)
              THEN [cfg EXCEPT !.apiKey = e.MEM0_API_KEY, !.mode = "hosted"]
              ELSE cfg
        c2 == IF Truthy(e.MEM0_BASE_URL)
              THEN [c1 EXCEPT !.baseUrl = e.MEM0_BASE_URL]
              ELSE c1
    IN  IF IsSome(e.MEM0_MODE) /\ e.MEM0_MODE[1] \in {"local", "hosted"}
        THEN [c2 EXCEPT !.mode = e.MEM0_MODE[1]]
        ELSE c2

\* new Mem0ConfigManager(): the constructor's only statement.
NewMem0ConfigManager(e) == loadFromEnvironment(DEFAULT_CONFIG, e)

\* updates[k] of a Partial<Mem0Config>: undefined when k is not an own key.
Prop(updates, k) ==
    IF k \in updates.keys
    THEN (CASE k = "baseUrl" -> updates.baseUrl
            [] k = "apiKey"  -> updates.apiKey)
    ELSE None

\* updateConfig with the auto-detection skipped when the update names a mode.
updateConfig_ExplicitModeWins(cfg, updates) ==
    LET merged ==
            [ enabled |-> updates.enabled,
              mode    |-> IF "mode" \in updates.keys THEN updates.mode ELSE cfg.mode,
              baseUrl |-> IF "baseUrl" \in updates.keys THEN updates.baseUrl ELSE cfg.baseUrl,
              apiKey  |-> IF "apiKey" \in updates.keys THEN updates.apiKey ELSE cfg.apiKey ]
    IN  IF IsSome(Prop(updates, "apiKey")) /\ "mode" \notin updates.keys
        THEN [merged EXCEPT !.mode = IF Truthy(updates.apiKey) THEN "hosted" ELSE "local"]
        ELSE merged

\* Mem0ConfigManager.updateConfig: the spread, then the mode auto-detection.
updateConfig(cfg, updates) ==
    LET merged ==
            [ enabled |-> updates.enabled,
              mode    |-> IF "mode" \in updates.keys THEN updates.mode ELSE cfg.mode,
              baseUrl |-> IF "baseUrl" \in updates.keys THEN updates.baseUrl ELSE cfg.baseUrl,
              apiKey  |-> IF "apiKey" \in updates.keys THEN updates.apiKey ELSE cfg.apiKey ]
    IN  IF IsSome(Prop(updates, "apiKey"))
        THEN [merged EXCEPT !.mode = IF Truthy(updates.apiKey) THEN "hosted" ELSE "local"]
        ELSE merged

isValidApiKey_NoRegex(apiKey) == Truthy(apiKey)

\* Mem0ConfigManager.isValidApiKey
isValidApiKey(apiKey) ==
    IF ~Truthy(apiKey) THEN FALSE ELSE RegexVerdict[apiKey[1]]

isValidConfiguration_KeyPresent(cfg) ==
    IF ~Truthy(cfg.baseUrl) THEN FALSE
    ELSE IF cfg.mode = "hosted" THEN Truthy(cfg.apiKey)
    ELSE TRUE

\* Mem0ConfigManager.isValidConfiguration
isValidConfiguration(cfg) ==
    IF ~Truthy(cfg.baseUrl) THEN FALSE
    ELSE IF cfg.mode = "hosted" THEN isValidApiKey(cfg.apiKey)
    ELSE TRUE

\* Mem0ConfigManager.isEnabled
isEnabled(cfg) == cfg.enabled /\ isValidConfiguration(cfg)

\* Mem0ConfigManager.getQdrantConfig().enabled, for the manager's ContextProxy:
\* <<>> when the manager has none, else the proxy's codebaseIndexConfig.
getQdrantConfigEnabled(contextProxy) ==
    /\ IsSome(contextProxy)
    /\ contextProxy[1].codebaseIndexEnabled
    /\ contextProxy[1].codebaseIndexQdrantUrl # EmptyString

\* Mem0ConfigManager.getRequestHeaders: the key sent as Authorization: Bearer
\* and X-API-Key, undefined when neither header is set.
getRequestHeaders(cfg) ==
    [ ContentType   |-> "application/json",
      Authorization |-> IF cfg.mode = "hosted" /\ Truthy(cfg.apiKey) THEN cfg.apiKey ELSE None,
      XApiKey       |-> IF cfg.mode = "hosted" /\ Truthy(cfg.apiKey) THEN cfg.apiKey ELSE None ]

StripTrailingSlash_Keep(s) == s

\* s.replace(/\/$/, "")
StripTrailingSlash(s) ==
    IF Len(s) > 0 /\ s[Len(s)] = Slash THEN SubSeq(s, 1, Len(s) - 1) ELSE s

\* Mem0ConfigManager.getBaseUrl
getBaseUrl(cfg) ==
    IF IsSome(cfg.baseUrl) THEN Some(StripTrailingSlash(cfg.baseUrl[1])) ELSE None


(***************************************************************************)
(* services/mem0/client.ts                                                 *)
(***************************************************************************)
REQUEST_TIMEOUT == 30000

\* What the mocked or real axios call does with a request.
Responses == {"array", "object", "401", "500", "noresponse"}
\* What a Mem0QdrantClient method's underlying Qdrant call does.
VsOutcomes == {"ok", "fail"}
\* What embedder.createEmbeddings does: embeddings, an empty list, or a throw.
EmbOutcomes == {"ok", "empty", "throw"}

MemoryIds == {"m1"}
UserIds == {"u"}
AgentIds == {"a"}
Limits == {0, 5}

SearchEndpoint == <<Slash, "search">>
MemoriesEndpoint == <<Slash, "memories">>
MemoryEndpoint(memory_id) == <<Slash, "memories", Slash, memory_id>>
\* `/memories?${new URLSearchParams({user_id, agent_id, ...(limit && {limit})})}`
ListEndpoint(user_id, agent_id, hasLimit, limit) ==
    <<Slash, "memories", "?", "user_id=", user_id, "&", "agent_id=", agent_id>>
        \o (IF hasLimit /\ limit # 0 THEN <<"&", "limit=", ToString(limit)>> ELSE <<>>)
HealthEndpoint == <<Slash, "health">>

\* makeRequest: the request issued (if any), the error thrown (if any), the data.
makeRequest(cfg, method, endpoint, resp) ==
    LET baseUrl == getBaseUrl(cfg)
        headers == getRequestHeaders(cfg)
    IN  IF ~Truthy(baseUrl)
        THEN [http |-> <<>>, err |-> "Mem0ApiError", data |-> "none"]
        ELSE [ http |-> << [ method  |-> method,
                             url     |-> baseUrl[1] \o endpoint,
                             headers |-> headers,
                             timeout |-> REQUEST_TIMEOUT ] >>,
               err  |-> CASE resp \in {"401", "403"} -> "Mem0InvalidApiKeyError"
                          [] resp \in {"array", "object"} -> "none"
                          [] resp = "noresponse" -> "Mem0NetworkError"
                          [] OTHER -> "Mem0ApiError",
               data |-> IF resp \in {"array", "object"} THEN resp ELSE "none" ]

isServiceReady_IgnoresEnabled(cm) == IsSome(cm) /\ isValidConfiguration(cm[1])

\* isServiceReady, for the value cm of `configManager`
isServiceReady(cm) == IsSome(cm) /\ isEnabled(cm[1])

Sentinel(op) ==
    CASE op \in {"search_memories", "get_memory", "list_memories"} -> "null"
      [] op \in {"store_memory", "delete_memory"} -> "false"
      [] op = "health_check" -> "error"

Outcome(op, enabledArg, backend, ret, threw, caught, http, emb, vs) ==
    [ op |-> op, enabledArg |-> enabledArg, cfgAt |-> configManager,
      backend |-> backend, ret |-> ret, threw |-> threw, caught |-> caught,
      http |-> http, emb |-> emb, vs |-> vs ]

NoCall == [ op |-> "none", enabledArg |-> FALSE, cfgAt |-> <<>>, backend |-> "none",
            ret |-> "none", threw |-> "none", caught |-> "none",
            http |-> <<>>, emb |-> 0, vs |-> 0 ]

\* The hosted branch of an operation: the key check, then one makeRequest;
\* retArray/retOther are what the operation returns for array/non-array data.
HostedBranch(op, cfg, method, endpoint, resp, retArray, retOther) ==
    IF ~isValidApiKey(cfg.apiKey)
    THEN Outcome(op, FALSE, "none", Sentinel(op), "none", "Mem0HostedModeError", <<>>, 0, 0)
    ELSE LET r == makeRequest(cfg, method, endpoint, resp)
         IN  IF r.err # "none"
             THEN Outcome(op, FALSE, IF r.http = <<>> THEN "none" ELSE resp,
                          Sentinel(op), "none", r.err, r.http, 0, 0)
             ELSE Outcome(op, FALSE, resp,
                          IF r.data = "array" THEN retArray ELSE retOther,
                          "none", "none", r.http, 0, 0)

NotReady(op) == Outcome(op, FALSE, "none", Sentinel(op), "none", "none", <<>>, 0, 0)


\* Inputs of configureMem0 -------------------------------------------------

BaseUrls == { Some(EmptyString), Some(<<Slash>>), Some(<<"http://x", Slash>>) }
ApiKeys == { None, Some(EmptyString), Some(ValidKey), Some(ShortKey) }

\* Partial<Mem0Config> & {enabled}: `keys` are the own properties besides
\* enabled; a property that is not an own key is written in its canonical form.
OptionsOver(urls, apiKeys) ==
    { o \in [ enabled : BOOLEAN, keys : SUBSET {"mode", "baseUrl", "apiKey"},
              mode : {"local", "hosted"}, baseUrl : urls \cup {None},
              apiKey : apiKeys \cup {None} ] :
        /\ "mode" \notin o.keys => o.mode = "local"
        /\ "baseUrl" \notin o.keys => o.baseUrl = None
        /\ "apiKey" \notin o.keys => o.apiKey = None }

Mem0Options == OptionsOver(BaseUrls, ApiKeys)

\* The ContextProxy a Mem0ConfigManager reads its Qdrant settings from.  The
\* client constructs its manager without one; the local-mode test-suite
\* substitutes a manager whose getQdrantConfig() is enabled.
ContextProxies ==
    { None,
      Some([codebaseIndexEnabled |-> TRUE, codebaseIndexQdrantUrl |-> <<"http://q">>]) }

NoEnv == [MEM0_API_KEY |-> None, MEM0_BASE_URL |-> None, MEM0_MODE |-> None]
Envs ==
    { NoEnv,
      [MEM0_API_KEY |-> Some(ShortKey), MEM0_BASE_URL |-> Some(<<"http://e", Slash>>),
       MEM0_MODE |-> None] }

\* No ReferenceIndexConfigManager and no service factory has been constructed.
NoVectorStore ==
    /\ collection = <<>> /\ embeddingDimension = 0 /\ vsLast = <<>>

NoReferenceIndex ==
    /\ store = <<>> /\ mgr = <<>> /\ edits = 0 /\ cfgLast = <<>> /\ loading = <<>>
    /\ factory = <<>> /\ pipeline = <<>>
    /\ NoVectorStore

Mem0Init ==
    /\ env \in Envs
    /\ configManager = <<>>
    /\ qdrantClient = 0
    /\ embedder = FALSE
    /\ inits = <<>>
    /\ pending = <<>>
    /\ last = NoCall
    /\ lastSetup = <<>>
    /\ NoReferenceIndex

\* configureMem0(options, localEmbedder), with initializeLocalMode up to its
\* first await.
configureMem0Call(options, localEmbedder, contextProxy) ==
    LET manager == IF configManager = <<>> THEN NewMem0ConfigManager(env)
                   ELSE configManager[1]
        config  == updateConfig(manager, options)
        throws  == /\ options.enabled /\ ~isValidConfiguration(config)
                   /\ config.mode = "hosted" /\ ~isValidApiKey(config.apiKey)
        local   == ~throws /\ options.enabled /\ config.mode = "local"
        client  == local /\ getQdrantConfigEnabled(contextProxy)
    IN  /\ client => Len(inits) < MaxClients
        /\ configManager' = <<config>>
        /\ qdrantClient' = IF client THEN Len(inits) + 1 ELSE qdrantClient
        /\ embedder' = IF client /\ localEmbedder THEN TRUE ELSE embedder
        /\ inits' = IF client THEN Append(inits, "pending") ELSE inits
        /\ last' = [ Outcome("configureMem0", options.enabled, "none", "undefined",
                             IF throws THEN "Mem0InvalidApiKeyError" ELSE "none",
                             "none", <<>>, 0, 0)
                     EXCEPT !.cfgAt = <<config>> ]
        /\ UNCHANGED <<cfgVars, factoryVars, storeVars>>
        /\ UNCHANGED <<env, pending>>

configureMem0(options, localEmbedder, contextProxy) ==
    /\ configureMem0Call(options, localEmbedder, contextProxy)
    /\ UNCHANGED lastSetup

\* qdrantClient.initialize() of client i settles; a rejection is rethrown by
\* initializeLocalMode, whose promise nobody awaits.
InitializeSettles(i, ok) ==
    /\ i \in 1..Len(inits)
    /\ inits[i] = "pending"
    /\ inits' = [inits EXCEPT ![i] = IF ok THEN "done" ELSE "rejected"]
    /\ UNCHANGED <<cfgVars, factoryVars, storeVars>>
    /\ UNCHANGED <<env, lastSetup, configManager, qdrantClient, embedder, pending, last>>

resetMem0Config ==
    /\ configManager' = <<>>
    /\ qdrantClient' = 0
    /\ embedder' = FALSE
    /\ last' = [NoCall EXCEPT !.op = "resetMem0Config"]
    /\ UNCHANGED <<cfgVars, factoryVars, storeVars>>
    /\ UNCHANGED <<env, lastSetup, inits, pending>>

\* validateApiKey(apiKey): getConfigManager() throws when there is no manager.
validateApiKey(apiKey) ==
    /\ last' = IF configManager = <<>>
               THEN Outcome("validateApiKey", FALSE, "none", "none",
                            "Mem0NotInitializedError", "none", <<>>, 0, 0)
               ELSE Outcome("validateApiKey", FALSE, "none",
                            IF isValidApiKey(apiKey) THEN "true" ELSE "false",
                            "none", "none", <<>>, 0, 0)
    /\ UNCHANGED <<cfgVars, factoryVars, storeVars>>
    /\ UNCHANGED <<env, lastSetup, configManager, qdrantClient, embedder, inits, pending>>

getMem0Mode ==
    /\ last' = IF configManager = <<>>
               THEN Outcome("getMem0Mode", FALSE, "none", "local", "none",
                            "Mem0NotInitializedError", <<>>, 0, 0)
               ELSE Outcome("getMem0Mode", FALSE, "none", configManager[1].mode,
                            "none", "none", <<>>, 0, 0)
    /\ UNCHANGED <<cfgVars, factoryVars, storeVars>>
    /\ UNCHANGED <<env, lastSetup, configManager, qdrantClient, embedder, inits, pending>>

\* search_memories / store_memory up to the first await of the local branch
\* (embedder.createEmbeddings); the hosted branch reads no state after its await.
EmbeddingOp(op, method, endpoint, resp, retArray, retOther) ==
    /\ pending = <<>>
    /\ IF ~isServiceReady(configManager)
       THEN last' = NotReady(op) /\ pending' = pending
       ELSE IF configManager[1].mode = "hosted"
       THEN /\ last' = HostedBranch(op, configManager[1], method, endpoint, resp,
                                    retArray, retOther)
            /\ pending' = pending
       ELSE IF qdrantClient = 0 \/ ~embedder
       THEN /\ last' = Outcome(op, FALSE, "none", Sentinel(op), "none", "none", <<>>, 0, 0)
            /\ pending' = pending
       ELSE /\ pending' = <<[op |-> op, cfgAt |-> configManager]>>
            /\ last' = last
    /\ UNCHANGED <<cfgVars, factoryVars, storeVars>>
    /\ UNCHANGED <<env, lastSetup, configManager, qdrantClient, embedder, inits>>

search_memories(user_id, agent_id, resp) ==
    EmbeddingOp("search_memories", "POST", SearchEndpoint, resp, "array", "empty")

store_memory(user_id, agent_id, resp) ==
    EmbeddingOp("store_memory", "POST", MemoriesEndpoint, resp, "true", "true")

LocalResume_EmptyEmbeddingProceeds(emb, vs) ==
    /\ pending # <<>>
    /\ last' = [ Outcome(pending[1].op, FALSE,
                         IF emb = "empty" THEN "embedder_empty" ELSE "ok",
                         IF pending[1].op = "search_memories" THEN "array" ELSE "true",
                         "none", "none", <<>>, 1, 1)
                 EXCEPT !.cfgAt = pending[1].cfgAt ]
    /\ pending' = <<>>
    /\ UNCHANGED <<cfgVars, factoryVars, storeVars>>
    /\ UNCHANGED <<env, lastSetup, configManager, qdrantClient, embedder, inits>>

\* searchMemoriesLocal / storeMemoryLocal from the embedder's answer on: the
\* global qdrantClient is read again after the await.
LocalResume(emb, vs) ==
    /\ pending # <<>>
    /\ LET op == pending[1].op
           done(backend, ret, caught, nvs) ==
               [ Outcome(op, FALSE, backend, ret, "none", caught, <<>>, 1, nvs)
                 EXCEPT !.cfgAt = pending[1].cfgAt ]
       IN  last' =
             CASE emb = "throw" -> done("embedder_error", Sentinel(op), "Error", 0)
               [] emb = "empty" -> done("embedder_empty", Sentinel(op), "none", 0)
               [] emb = "ok" /\ qdrantClient = 0 ->
                      done("none", Sentinel(op), "TypeError", 0)
               [] emb = "ok" /\ qdrantClient # 0 /\ vs = "fail" ->
                      done("vectorstore_error", Sentinel(op), "Error", 1)
               [] OTHER ->
                      done("ok", IF op = "search_memories" THEN "array" ELSE "true",
                           "none", 1)
    /\ pending' = <<>>
    /\ UNCHANGED <<cfgVars, factoryVars, storeVars>>
    /\ UNCHANGED <<env, lastSetup, configManager, qdrantClient, embedder, inits>>

\* get_memory / delete_memory / list_memories: at most one await in either
\* branch, and no state read after it.  localOk/localFail are what the local
\* branch returns when the Mem0QdrantClient method's Qdrant call succeeds/fails.
PointOp(op, method, endpoint, resp, vs, retArray, retOther, localOk, localFail) ==
    /\ last' =
         IF ~isServiceReady(configManager) THEN NotReady(op)
         ELSE IF configManager[1].mode = "hosted"
         THEN HostedBranch(op, configManager[1], method, endpoint, resp, retArray, retOther)
         ELSE IF qdrantClient = 0
         THEN Outcome(op, FALSE, "none", Sentinel(op), "none", "none", <<>>, 0, 0)
         ELSE IF vs = "ok"
         THEN Outcome(op, FALSE, "ok", localOk, "none", "none", <<>>, 0, 1)
         ELSE Outcome(op, FALSE, "vectorstore_error", localFail, "none", "Error", <<>>, 0, 1)
    /\ UNCHANGED <<cfgVars, factoryVars, storeVars>>
    /\ UNCHANGED <<env, lastSetup, configManager, qdrantClient, embedder, inits, pending>>

get_memory(memory_id, resp, vs) ==
    PointOp("get_memory", "GET", MemoryEndpoint(memory_id), resp, vs,
            "data", "data", "data", "null")

\* Mem0QdrantClient.deleteMemory catches the Qdrant error and returns false;
\* deleteMemoryLocal awaits it and returns true.
delete_memory(memory_id, resp, vs) ==
    PointOp("delete_memory", "DELETE", MemoryEndpoint(memory_id), resp, vs,
            "true", "true", "true", "true")

list_memories(user_id, agent_id, hasLimit, limit, resp, vs) ==
    PointOp("list_memories", "GET", ListEndpoint(user_id, agent_id, hasLimit, limit),
            resp, vs, "array", "empty", "array", "null")

\* health_check: getConfigManager() is inside the try.
health_check(resp, vs) ==
    /\ last' =
         IF configManager = <<>>
         THEN Outcome("health_check", FALSE, "none", "error", "none",
                      "Mem0NotInitializedError", <<>>, 0, 0)
         ELSE IF ~isServiceReady(configManager) THEN NotReady("health_check")
         ELSE IF configManager[1].mode = "hosted"
         THEN HostedBranch("health_check", configManager[1], "GET", HealthEndpoint,
                           resp, "ok", "ok")
         ELSE IF qdrantClient = 0
         THEN Outcome("health_check", FALSE, "none", "error", "none", "Error", <<>>, 0, 0)
         ELSE IF vs = "ok"
         THEN Outcome("health_check", FALSE, "ok", "ok", "none", "none", <<>>, 0, 1)
         ELSE Outcome("health_check", FALSE, "vectorstore_error", "error", "none",
                      "Error", <<>>, 0, 1)
    /\ UNCHANGED <<cfgVars, factoryVars, storeVars>>
    /\ UNCHANGED <<env, lastSetup, configManager, qdrantClient, embedder, inits, pending>>

(***************************************************************************)
(* Spec: the client as client.ts builds it.  configureMem0 constructs the  *)
(* manager as `new Mem0ConfigManager()`, without a ContextProxy, so        *)
(* getQdrantConfig() is never enabled and the local branch finds no Qdrant *)
(* client; every option of configureMem0 and every HTTP outcome is drawn.  *)
(***************************************************************************)
Next ==
    \/ \E o \in Mem0Options, e \in BOOLEAN : configureMem0(o, e, None)
    \/ resetMem0Config
    \/ \E k \in ApiKeys \ {None} : validateApiKey(k)
    \/ getMem0Mode
    \/ \E u \in UserIds, a \in AgentIds, r \in Responses : search_memories(u, a, r)
    \/ \E u \in UserIds, a \in AgentIds, r \in Responses : store_memory(u, a, r)
    \/ \E m \in MemoryIds, r \in Responses : get_memory(m, r, "ok")
    \/ \E m \in MemoryIds, r \in Responses : delete_memory(m, r, "ok")
    \/ \E u \in UserIds, a \in AgentIds, h \in BOOLEAN, l \in Limits, r \in Responses :
          list_memories(u, a, h, l, r, "ok")
    \/ \E r \in Responses : health_check(r, "ok")

Spec == Mem0Init /\ [][Next]_vars

(***************************************************************************)
(* LocalSpec: the client with a manager whose getQdrantConfig() may be     *)
(* enabled, as the local-mode test-suite sets it up, so that the local     *)
(* branch reaches the embedder and the Mem0QdrantClient.  The options and  *)
(* HTTP outcomes are a subset of those of Spec.                            *)
(***************************************************************************)
LocalOptions ==
    { o \in Mem0Options :
        /\ "baseUrl" \in o.keys => o.baseUrl = Some(EmptyString)
        /\ "apiKey" \in o.keys => o.apiKey \in {Some(ValidKey), Some(ShortKey)} }
\* (localEmbedder given, the manager's ContextProxy): the embedder is stored
\* only where a Qdrant configuration was found.
LocalSetups == { <<FALSE, None>> } \cup { <<e, cp>> : e \in BOOLEAN, cp \in ContextProxies \ {None} }
LocalResponses == {"array", "500"}

LocalInit ==
    /\ env = NoEnv
    /\ configManager = <<>>
    /\ qdrantClient = 0
    /\ embedder = FALSE
    /\ inits = <<>>
    /\ pending = <<>>
    /\ last = NoCall
    /\ lastSetup = <<>>
    /\ NoReferenceIndex

LocalNext ==
    \/ \E o \in LocalOptions, su \in LocalSetups : configureMem0(o, su[1], su[2])
    \/ \E i \in 1..MaxClients, ok \in BOOLEAN : InitializeSettles(i, ok)
    \/ resetMem0Config
    \/ \E k \in {Some(ValidKey)} : validateApiKey(k)
    \/ getMem0Mode
    \/ \E u \in UserIds, a \in AgentIds, r \in LocalResponses : search_memories(u, a, r)
    \/ \E u \in UserIds, a \in AgentIds, r \in LocalResponses : store_memory(u, a, r)
    \/ \E e \in EmbOutcomes, v \in VsOutcomes : LocalResume(e, v)
    \/ \E m \in MemoryIds, r \in LocalResponses, v \in VsOutcomes : get_memory(m, r, v)
    \/ \E m \in MemoryIds, r \in LocalResponses, v \in VsOutcomes : delete_memory(m, r, v)
    \/ \E u \in UserIds, a \in AgentIds, r \in LocalResponses, v \in VsOutcomes :
          list_memories(u, a, FALSE, 0, r, v)
    \/ \E r \in LocalResponses, v \in VsOutcomes : health_check(r, v)

LocalSpec == LocalInit /\ [][LocalNext]_vars


(***************************************************************************)
(* Properties of the dual-mode client                                      *)
(***************************************************************************)
FiveOps == {"search_memories", "store_memory", "get_memory", "delete_memory", "list_memories"}
SixOps == FiveOps \cup {"health_check"}

\* The key format as the specification words it: mem0- and 52 alphanumerics.
KeyFormatOk(apiKey) == IsSome(apiKey) /\ MEM0_API_KEY_REGEX(apiKey[1])

\* The sentinels as the specification words them.
NullOps == {"search_memories", "get_memory", "list_memories"}
SentinelOf(op) ==
    IF op \in NullOps THEN "null" ELSE IF op = "health_check" THEN "error" ELSE "false"

\* Not ready: never configured, enabled=false, empty base URL, or hosted mode
\* with a malformed API key.
NotReadyConfig(cm) ==
    \/ cm = <<>>
    \/ ~cm[1].enabled
    \/ ~Truthy(cm[1].baseUrl)
    \/ (cm[1].mode = "hosted" /\ ~KeyFormatOk(cm[1].apiKey))

ReadyHosted(cm) == ~NotReadyConfig(cm) /\ cm[1].mode = "hosted"

\* C1: a call of search_memories, store_memory, get_memory, delete_memory or
\* list_memories made while the service is not ready returns its sentinel and
\* issues no HTTP request, no embedder call and no vector-store call.
C1_NotReadyReturnsSentinel ==
    (last.op \in FiveOps /\ NotReadyConfig(last.cfgAt)) =>
        /\ last.ret = SentinelOf(last.op)
        /\ last.threw = "none"
        /\ last.http = <<>>
        /\ last.emb = 0
        /\ last.vs = 0

\* C1 witness: search_memories was called with the feature disabled while a
\* Qdrant client and an embedder were in place, and reached neither.
C1_Witness ==
    /\ last.op = "search_memories"
    /\ last.cfgAt # <<>>
    /\ ~last.cfgAt[1].enabled
    /\ qdrantClient # 0
    /\ embedder
    /\ last.ret = "null"

BackendFailures ==
    {"401", "403", "500", "noresponse", "embedder_error", "embedder_empty", "vectorstore_error"}

\* C2: after any sequence of configureMem0/resetMem0Config calls, the six
\* operations never throw and every backend failure (HTTP error status,
\* transport failure, embedder error, vector-store error) is converted to the
\* call's sentinel.
C2_FailureBecomesSentinel ==
    last.op \in SixOps =>
        /\ last.threw = "none"
        /\ last.backend \in BackendFailures => last.ret = SentinelOf(last.op)

\* C3: every HTTP request issued while the mode is hosted carries a key of the
\* mem0- format in both key headers, and none is issued while the configured
\* key is missing or malformed.
C3_HostedRequestsCarryValidKey ==
    (last.cfgAt # <<>> /\ last.cfgAt[1].mode = "hosted") =>
        /\ ~KeyFormatOk(last.cfgAt[1].apiKey) => last.http = <<>>
        /\ \A i \in 1..Len(last.http) :
              /\ KeyFormatOk(last.http[i].headers.Authorization)
              /\ KeyFormatOk(last.http[i].headers.XApiKey)
              /\ last.http[i].headers.Authorization = last.cfgAt[1].apiKey

\* C3 witness: a hosted-mode operation issued a request.
C3_Witness ==
    /\ last.op \in SixOps
    /\ last.cfgAt # <<>>
    /\ last.cfgAt[1].mode = "hosted"
    /\ Len(last.http) = 1

\* C4: configureMem0 with enabled=true raises Mem0InvalidApiKeyError whenever
\* the resulting mode is hosted and the resulting key does not match the format.
C4_ConfigureRejectsMalformedKey ==
    ( /\ last.op = "configureMem0"
      /\ last.enabledArg
      /\ configManager[1].mode = "hosted"
      /\ ~KeyFormatOk(configManager[1].apiKey) )
    => last.threw = "Mem0InvalidApiKeyError"

\* C4 witness: configureMem0(enabled=true) left a hosted configuration with a
\* key one character short, and raised.
C4_Witness ==
    /\ last.op = "configureMem0"
    /\ last.enabledArg
    /\ configManager[1].mode = "hosted"
    /\ configManager[1].apiKey = Some(ShortKey)
    /\ last.threw = "Mem0InvalidApiKeyError"

\* The fixed method/path table.
MethodOf(op) ==
    CASE op \in {"search_memories", "store_memory"} -> "POST"
      [] op = "delete_memory" -> "DELETE"
      [] OTHER -> "GET"

PathsOf(op) ==
    CASE op = "search_memories" -> {SearchEndpoint}
      [] op = "store_memory" -> {MemoriesEndpoint}
      [] op \in {"get_memory", "delete_memory"} -> {MemoryEndpoint(m) : m \in MemoryIds}
      [] op = "list_memories" ->
            {ListEndpoint(u, a, h, l) : u \in UserIds, a \in AgentIds, h \in BOOLEAN, l \in Limits}
      [] op = "health_check" -> {HealthEndpoint}

EndsWith(s, suffix) ==
    /\ Len(s) >= Len(suffix)
    /\ SubSeq(s, Len(s) - Len(suffix) + 1, Len(s)) = suffix

\* C5: when the service is ready in hosted mode, each call of an operation
\* issues exactly one HTTP request, with the method and path of the fixed
\* table and a 30000 ms timeout, whatever the response (no retry).
C5_OneRequestPerHostedCall ==
    (last.op \in SixOps /\ ReadyHosted(last.cfgAt)) =>
        /\ Len(last.http) = 1
        /\ last.http[1].method = MethodOf(last.op)
        /\ \E path \in PathsOf(last.op) : EndsWith(last.http[1].url, path)
        /\ last.http[1].timeout = 30000

(***************************************************************************)
(* shared/embeddingModels: the model catalog (provider -> model ->         *)
(* dimension) and the default model of a provider.  Pure data.             *)
(***************************************************************************)
Providers == {"openai", "ollama", "openai-compatible", "gemini"}

EMBEDDING_MODEL_PROFILES ==
    [ p \in Providers |->
        CASE p = "openai" ->
               { <<"text-embedding-3-small", 1536>>, <<"text-embedding-ada-002", 1536>>,
                 <<"text-embedding-3-large", 3072>> }
          [] p = "openai-compatible" ->
               { <<"text-embedding-3-small", 1536>>, <<"text-embedding-ada-002", 1536>>,
                 <<"text-embedding-3-large", 3072>> }
          [] p = "ollama" -> { <<"nomic-embed-text", 768>> }
          [] p = "gemini" -> { <<"text-embedding-004", 768>> } ]

\* getModelDimension(provider, modelId): the dimension, or undefined (None).
getModelDimension(provider, modelId) ==
    LET hits == { e \in EMBEDDING_MODEL_PROFILES[provider] : e[1] = modelId }
    IN  IF hits = {} THEN None ELSE Some((CHOOSE e \in hits : TRUE)[2])

getDefaultModelId(provider) ==
    CASE provider = "openai" -> "text-embedding-3-small"
      [] provider = "openai-compatible" -> "text-embedding-3-small"
      [] provider = "ollama" -> "nomic-embed-text"
      [] provider = "gemini" -> "text-embedding-004"

(***************************************************************************)
(* services/reference-index/config-manager.ts                              *)
(*                                                                         *)
(* Strings are TLA+ strings, "" being the empty string.  Every read of a   *)
(* stored string goes through `?? ""`, `||` or a truthiness test, so an    *)
(* absent value and "" are one value here; the two numbers and the model   *)
(* id, which the manager keeps as `T | undefined`, are options.            *)
(***************************************************************************)

\* The provider branch with ollama as the fall-back.
EmbedderProviderOf_FallsBackToOllama(p) ==
    IF p = "openai" THEN "openai"
    ELSE IF p = "openai-compatible" THEN "openai-compatible"
    ELSE IF p = "gemini" THEN "gemini"
    ELSE "ollama"

\* The provider the manager takes for the stored referenceIndexEmbedderProvider.
EmbedderProviderOf(p) ==
    IF p = "ollama" THEN "ollama"
    ELSE IF p = "openai-compatible" THEN "openai-compatible"
    ELSE IF p = "gemini" THEN "gemini"
    ELSE "openai"

\* _loadAndSetConfiguration(): the manager's fields as read from storage.
_loadAndSetConfiguration(st) ==
    LET p == st.referenceIndexEmbedderProvider
        compatible == /\ st.referenceIndexOpenAiCompatibleBaseUrl # ""
                      /\ st.referenceIndexOpenAiCompatibleApiKey # ""
    IN  [ isEnabled        |-> st.referenceIndexEnabled,
          qdrantUrl        |-> st.referenceIndexQdrantUrl,
          rootPath         |-> st.referenceIndexRootPath,
          qdrantApiKey     |-> st.codeIndexQdrantApiKey,
          searchMinScore   |-> st.referenceIndexSearchMinScore,
          searchMaxResults |-> st.referenceIndexSearchMaxResults,
          openAiOptions    |-> [openAiNativeApiKey |-> st.codeIndexOpenAiKey],
          embedderProvider |-> EmbedderProviderOf(p),
          modelId          |-> IF st.referenceIndexEmbedderModelId # ""
                               THEN Some(st.referenceIndexEmbedderModelId) ELSE None,
          ollamaOptions    |-> [ollamaBaseUrl |-> st.referenceIndexEmbedderBaseUrl],
          openAiCompatibleOptions |->
              IF compatible
              THEN Some([ baseUrl |-> st.referenceIndexOpenAiCompatibleBaseUrl,
                          apiKey |-> st.referenceIndexOpenAiCompatibleApiKey,
                          modelDimension |-> st.referenceIndexOpenAiCompatibleModelDimension ])
              ELSE None,
          geminiOptions    |-> IF st.referenceIndexGeminiApiKey # ""
                               THEN Some([apiKey |-> st.referenceIndexGeminiApiKey])
                               ELSE None ]

\* this.openAiCompatibleOptions?.baseUrl ?? "" and its siblings
CompatibleBaseUrl(m) ==
    IF IsSome(m.openAiCompatibleOptions) THEN m.openAiCompatibleOptions[1].baseUrl ELSE ""
CompatibleApiKey(m) ==
    IF IsSome(m.openAiCompatibleOptions) THEN m.openAiCompatibleOptions[1].apiKey ELSE ""
CompatibleModelDimension(m) ==
    IF IsSome(m.openAiCompatibleOptions) THEN m.openAiCompatibleOptions[1].modelDimension
    ELSE None
GeminiApiKey(m) ==
    IF IsSome(m.geminiOptions) THEN m.geminiOptions[1].apiKey ELSE ""

\* isConfigured with the ollama branch not testing the Qdrant URL.
isConfigured_OllamaWithoutQdrantUrl(m) ==
    IF m.embedderProvider = "openai"
    THEN m.openAiOptions.openAiNativeApiKey # "" /\ m.qdrantUrl # ""
    ELSE IF m.embedderProvider = "ollama"
    THEN m.ollamaOptions.ollamaBaseUrl # ""
    ELSE IF m.embedderProvider = "openai-compatible"
    THEN CompatibleBaseUrl(m) # "" /\ CompatibleApiKey(m) # "" /\ m.qdrantUrl # ""
    ELSE IF m.embedderProvider = "gemini"
    THEN GeminiApiKey(m) # "" /\ m.qdrantUrl # ""
    ELSE FALSE

isConfigured(m) ==
    IF m.embedderProvider = "openai"
    THEN m.openAiOptions.openAiNativeApiKey # "" /\ m.qdrantUrl # ""
    ELSE IF m.embedderProvider = "ollama"
    THEN m.ollamaOptions.ollamaBaseUrl # "" /\ m.qdrantUrl # ""
    ELSE IF m.embedderProvider = "openai-compatible"
    THEN CompatibleBaseUrl(m) # "" /\ CompatibleApiKey(m) # "" /\ m.qdrantUrl # ""
    ELSE IF m.embedderProvider = "gemini"
    THEN GeminiApiKey(m) # "" /\ m.qdrantUrl # ""
    ELSE FALSE

\* The PreviousConfigSnapshot loadConfiguration captures before it reloads.
previousConfigSnapshot(m) ==
    [ enabled                        |-> m.isEnabled,
      configured                     |-> isConfigured(m),
      embedderProvider               |-> m.embedderProvider,
      modelId                        |-> m.modelId,
      openAiKey                      |-> m.openAiOptions.openAiNativeApiKey,
      ollamaBaseUrl                  |-> m.ollamaOptions.ollamaBaseUrl,
      openAiCompatibleBaseUrl        |-> CompatibleBaseUrl(m),
      openAiCompatibleApiKey         |-> CompatibleApiKey(m),
      openAiCompatibleModelDimension |-> CompatibleModelDimension(m),
      geminiApiKey                   |-> GeminiApiKey(m),
      qdrantUrl                      |-> m.qdrantUrl,
      qdrantApiKey                   |-> m.qdrantApiKey,
      rootPath                       |-> m.rootPath ]

\* _hasVectorDimensionChanged with the fail-safe on an unresolved dimension
\* dropped.
_hasVectorDimensionChanged_NoFailSafe(prevProvider, prevModelId, m) ==
    LET currentModelId == IF IsSome(m.modelId) THEN m.modelId[1]
                          ELSE getDefaultModelId(m.embedderProvider)
        resolvedPrevModelId == IF IsSome(prevModelId) THEN prevModelId[1]
                               ELSE getDefaultModelId(prevProvider)
        prevDimension == getModelDimension(prevProvider, resolvedPrevModelId)
        currentDimension == getModelDimension(m.embedderProvider, currentModelId)
    IN  /\ prevDimension # None /\ currentDimension # None
        /\ prevDimension # currentDimension

\* _hasVectorDimensionChanged without its early return for an unchanged
\* provider and model.
_hasVectorDimensionChanged_NoSameModelReturn(prevProvider, prevModelId, m) ==
    LET currentModelId == IF IsSome(m.modelId) THEN m.modelId[1]
                          ELSE getDefaultModelId(m.embedderProvider)
        resolvedPrevModelId == IF IsSome(prevModelId) THEN prevModelId[1]
                               ELSE getDefaultModelId(prevProvider)
        prevDimension == getModelDimension(prevProvider, resolvedPrevModelId)
        currentDimension == getModelDimension(m.embedderProvider, currentModelId)
    IN  IF prevDimension = None \/ currentDimension = None
        THEN TRUE
        ELSE prevDimension # currentDimension

_hasVectorDimensionChanged(prevProvider, prevModelId, m) ==
    LET currentProvider == m.embedderProvider
        currentModelId == IF IsSome(m.modelId) THEN m.modelId[1]
                          ELSE getDefaultModelId(currentProvider)
        resolvedPrevModelId == IF IsSome(prevModelId) THEN prevModelId[1]
                               ELSE getDefaultModelId(prevProvider)
        prevDimension == getModelDimension(prevProvider, resolvedPrevModelId)
        currentDimension == getModelDimension(currentProvider, currentModelId)
    IN  IF prevProvider = currentProvider /\ resolvedPrevModelId = currentModelId
        THEN FALSE
        ELSE IF prevDimension = None \/ currentDimension = None
        THEN TRUE
        ELSE prevDimension # currentDimension

\* Rule 1 without its test of the feature being enabled now.
ColdStart_IgnoresEnabledNow(prev, m) ==
    (~prev.enabled \/ ~prev.configured) /\ isConfigured(m)

\* Rule 1 never firing.
ColdStart_Never(prev, m) == FALSE

\* Rule 1: from disabled/unconfigured to enabled+configured.
ColdStart(prev, m) ==
    (~prev.enabled \/ ~prev.configured) /\ m.isEnabled /\ isConfigured(m)

\* Step 4 with the root path compared as well.
CriticalChange_ComparesRootPath(prev, m) ==
    \/ prev.embedderProvider # m.embedderProvider
    \/ prev.openAiKey # m.openAiOptions.openAiNativeApiKey
    \/ prev.ollamaBaseUrl # m.ollamaOptions.ollamaBaseUrl
    \/ prev.openAiCompatibleBaseUrl # CompatibleBaseUrl(m)
    \/ prev.openAiCompatibleApiKey # CompatibleApiKey(m)
    \/ /\ m.embedderProvider = "openai-compatible" \/ prev.embedderProvider = "openai-compatible"
       /\ prev.openAiCompatibleModelDimension # CompatibleModelDimension(m)
    \/ prev.qdrantUrl # m.qdrantUrl
    \/ prev.qdrantApiKey # m.qdrantApiKey
    \/ prev.rootPath # m.rootPath
    \/ _hasVectorDimensionChanged(prev.embedderProvider, prev.modelId, m)

\* Step 4, the comparisons made while the feature is enabled on either side.
\* prevGeminiApiKey is read from the snapshot and compared with nothing.
CriticalChange(prev, m) ==
    IF prev.embedderProvider # m.embedderProvider THEN TRUE
    ELSE IF prev.openAiKey # m.openAiOptions.openAiNativeApiKey THEN TRUE
    ELSE IF prev.ollamaBaseUrl # m.ollamaOptions.ollamaBaseUrl THEN TRUE
    ELSE IF \/ prev.openAiCompatibleBaseUrl # CompatibleBaseUrl(m)
            \/ prev.openAiCompatibleApiKey # CompatibleApiKey(m) THEN TRUE
    ELSE IF /\ \/ m.embedderProvider = "openai-compatible"
               \/ prev.embedderProvider = "openai-compatible"
            /\ prev.openAiCompatibleModelDimension # CompatibleModelDimension(m) THEN TRUE
    ELSE IF prev.qdrantUrl # m.qdrantUrl \/ prev.qdrantApiKey # m.qdrantApiKey THEN TRUE
    ELSE _hasVectorDimensionChanged(prev.embedderProvider, prev.modelId, m)

doesConfigChangeRequireRestart(prev, m) ==
    LET nowConfigured == isConfigured(m)
    IN  IF ColdStart(prev, m) THEN TRUE
        ELSE IF ~prev.enabled /\ ~m.isEnabled THEN FALSE
        ELSE IF ~prev.configured /\ ~nowConfigured THEN FALSE
        ELSE IF m.isEnabled \/ prev.enabled THEN CriticalChange(prev, m)
        ELSE FALSE

(***************************************************************************)
(* ConfigSpec: a ReferenceIndexConfigManager over the settings storage.    *)
(* The settings are changed one key at a time, loadConfiguration() reloads *)
(* them, and doesConfigChangeRequireRestart() is also called on its own    *)
(* with a snapshot whose enabled/configured flags the caller chose.        *)
(***************************************************************************)
\* Scores are in hundredths.
SettingValues(key) ==
    CASE key = "referenceIndexEnabled" -> BOOLEAN
      [] key = "referenceIndexRootPath" -> {"", "/docs"}
      [] key = "referenceIndexQdrantUrl" -> {"", "http://localhost:6333", "http://q2"}
      [] key = "referenceIndexEmbedderProvider" ->
             {"openai", "ollama", "openai-compatible", "gemini", "bedrock"}
      [] key = "referenceIndexEmbedderBaseUrl" -> {"", "http://o1", "http://o2"}
      [] key = "referenceIndexEmbedderModelId" ->
             {"", "text-embedding-3-small", "text-embedding-ada-002",
              "text-embedding-3-large", "custom-model"}
      [] key = "referenceIndexSearchMinScore" -> {None, Some(40)}
      [] key = "referenceIndexSearchMaxResults" -> {None, Some(50)}
      [] key = "codeIndexOpenAiKey" -> {"", "sk-1", "sk-2"}
      [] key = "codeIndexQdrantApiKey" -> {"", "qk-1", "qk-2"}
      [] key = "referenceIndexOpenAiCompatibleBaseUrl" -> {"", "http://c1", "http://c2"}
      [] key = "referenceIndexOpenAiCompatibleApiKey" -> {"", "ck-1", "ck-2"}
      [] key = "referenceIndexOpenAiCompatibleModelDimension" -> {None, Some(768), Some(1536)}
      [] key = "referenceIndexGeminiApiKey" -> {"", "gk-1", "gk-2"}

SettingKeys ==
    { "referenceIndexEnabled", "referenceIndexRootPath", "referenceIndexQdrantUrl",
      "referenceIndexEmbedderProvider", "referenceIndexEmbedderBaseUrl",
      "referenceIndexEmbedderModelId", "referenceIndexSearchMinScore",
      "referenceIndexSearchMaxResults", "codeIndexOpenAiKey", "codeIndexQdrantApiKey",
      "referenceIndexOpenAiCompatibleBaseUrl", "referenceIndexOpenAiCompatibleApiKey",
      "referenceIndexOpenAiCompatibleModelDimension", "referenceIndexGeminiApiKey" }

\* Storage without a referenceIndexConfig object and without secrets: the
\* defaults _loadAndSetConfiguration substitutes.
DefaultSettings ==
    [ referenceIndexEnabled |-> FALSE,
      referenceIndexRootPath |-> "",
      referenceIndexQdrantUrl |-> "http://localhost:6333",
      referenceIndexEmbedderProvider |-> "openai",
      referenceIndexEmbedderBaseUrl |-> "",
      referenceIndexEmbedderModelId |-> "",
      referenceIndexSearchMinScore |-> None,
      referenceIndexSearchMaxResults |-> None,
      codeIndexOpenAiKey |-> "",
      codeIndexQdrantApiKey |-> "",
      referenceIndexOpenAiCompatibleBaseUrl |-> "",
      referenceIndexOpenAiCompatibleApiKey |-> "",
      referenceIndexOpenAiCompatibleModelDimension |-> None,
      referenceIndexGeminiApiKey |-> "" ]

\* Storage of a user who has filled in every provider's fields.
FilledSettings ==
    [ DefaultSettings EXCEPT
        !.referenceIndexEnabled = TRUE,
        !.referenceIndexEmbedderBaseUrl = "http://o1",
        !.codeIndexOpenAiKey = "sk-1",
        !.codeIndexQdrantApiKey = "qk-1",
        !.referenceIndexOpenAiCompatibleBaseUrl = "http://c1",
        !.referenceIndexOpenAiCompatibleApiKey = "ck-1",
        !.referenceIndexGeminiApiKey = "gk-1" ]

InitialSettings == { DefaultSettings, FilledSettings }

\* The arguments doesConfigChangeRequireRestart is called with on its own:
\* the snapshot of the fields now, or the one of the last call, with the two
\* flags as the caller sets them.
PrevSnapshots ==
    { [ s EXCEPT !.enabled = e, !.configured = c ] :
        s \in { previousConfigSnapshot(mgr), cfgLast.prev }, e \in BOOLEAN, c \in BOOLEAN }

ConfigInit ==
    /\ env = NoEnv
    /\ configManager = <<>>
    /\ qdrantClient = 0
    /\ embedder = FALSE
    /\ inits = <<>>
    /\ pending = <<>>
    /\ last = NoCall
    /\ lastSetup = <<>>
    /\ store \in InitialSettings
    /\ mgr = _loadAndSetConfiguration(store)
    /\ edits = 0
    /\ cfgLast = [ op |-> "constructor", prev |-> previousConfigSnapshot(mgr),
                   before |-> mgr, result |-> FALSE ]
    /\ loading = <<>>
    /\ factory = <<>>
    /\ pipeline = <<>>
    /\ NoVectorStore

\* One setting or secret is changed in storage.
SettingChanged(key, value) ==
    /\ edits < MaxEdits
    /\ value # store[key]
    /\ store' = [ store EXCEPT ![key] = value ]
    /\ edits' = edits + 1
    /\ UNCHANGED <<mgr, cfgLast, loading>>
    /\ UNCHANGED <<mem0Vars, factoryVars, storeVars>>

loadConfiguration ==
    LET snapshot == previousConfigSnapshot(mgr)
        loaded == _loadAndSetConfiguration(store)
    IN  /\ mgr' = loaded
        /\ cfgLast' = [ op |-> "loadConfiguration", prev |-> snapshot, before |-> mgr,
                        result |-> doesConfigChangeRequireRestart(snapshot, loaded) ]
        /\ UNCHANGED <<store, edits, loading>>
        /\ UNCHANGED <<mem0Vars, factoryVars, storeVars>>

requiresRestartCalled(prev) ==
    /\ cfgLast' = [ op |-> "doesConfigChangeRequireRestart", prev |-> prev, before |-> mgr,
                    result |-> doesConfigChangeRequireRestart(prev, mgr) ]
    /\ UNCHANGED <<store, mgr, edits, loading>>
    /\ UNCHANGED <<mem0Vars, factoryVars, storeVars>>

ConfigNext ==
    \/ \E k \in SettingKeys : \E v \in SettingValues(k) : SettingChanged(k, v)
    \/ loadConfiguration
    \/ \E prev \in PrevSnapshots : requiresRestartCalled(prev)

ConfigSpec == ConfigInit /\ [][ConfigNext]_vars

(***************************************************************************)
(* Properties of the restart decision                                      *)
(*                                                                         *)
(* cfgLast.prev is the snapshot the last call compared and mgr the fields  *)
(* it compared it with: only loadConfiguration assigns mgr, and it assigns *)
(* cfgLast in the same step.                                               *)
(***************************************************************************)
Decided == cfgLast.op \in {"loadConfiguration", "doesConfigChangeRequireRestart"}

\* The effective (provider, modelId) of a snapshot or of the manager's
\* fields, and the dimension the catalog gives it.
EffectiveModel(c) ==
    <<c.embedderProvider,
      IF IsSome(c.modelId) THEN c.modelId[1] ELSE getDefaultModelId(c.embedderProvider)>>
ImpliedDimension(c) == getModelDimension(EffectiveModel(c)[1], EffectiveModel(c)[2])

\* Some authentication or connection field differs as a string.
ConnectionDiffers(prev, next) ==
    \/ prev.openAiKey # next.openAiKey
    \/ prev.ollamaBaseUrl # next.ollamaBaseUrl
    \/ prev.openAiCompatibleBaseUrl # next.openAiCompatibleBaseUrl
    \/ prev.openAiCompatibleApiKey # next.openAiCompatibleApiKey
    \/ prev.geminiApiKey # next.geminiApiKey
    \/ prev.qdrantUrl # next.qdrantUrl
    \/ prev.qdrantApiKey # next.qdrantApiKey

\* Every field but the minor ones is the same in both sets of manager fields.
OnlyMinorFieldsDiffer(a, b) ==
    [ a EXCEPT !.searchMinScore = b.searchMinScore,
               !.searchMaxResults = b.searchMaxResults,
               !.rootPath = b.rootPath ] = b

\* C6: a call whose previous snapshot was disabled or unconfigured and whose
\* current configuration is enabled and configured (a cold start) returns
\* true, whatever the other fields are.
C6_ColdStartRestarts ==
    ( /\ Decided
      /\ ~cfgLast.prev.enabled \/ ~cfgLast.prev.configured
      /\ mgr.isEnabled /\ isConfigured(mgr) )
    => cfgLast.result

\* A reload that only switched the feature on, every other field unchanged
\* and configured on both sides, reported a restart.
C6_Witness ==
    /\ cfgLast.op = "loadConfiguration"
    /\ ~cfgLast.prev.enabled /\ cfgLast.prev.configured
    /\ mgr.isEnabled /\ isConfigured(mgr)
    /\ [ cfgLast.prev EXCEPT !.enabled = TRUE ] = previousConfigSnapshot(mgr)
    /\ cfgLast.result

\* C7: a call for which the feature is disabled both in the previous snapshot
\* and now returns false, whatever else differs between the two.
C7_BothDisabledNoRestart ==
    ( Decided /\ ~cfgLast.prev.enabled /\ ~mgr.isEnabled ) => ~cfgLast.result

\* A reload with the feature disabled before and after, configured before and
\* after, that changed the provider reported no restart.
C7_Witness ==
    /\ cfgLast.op = "loadConfiguration"
    /\ ~cfgLast.prev.enabled /\ ~mgr.isEnabled
    /\ cfgLast.prev.configured /\ isConfigured(mgr)
    /\ cfgLast.prev.embedderProvider # mgr.embedderProvider
    /\ ~cfgLast.result

\* The vector dimension of one side differs from that of the other: the
\* effective (provider, modelId) differs and a dimension is unresolved or the
\* two dimensions differ, or the provider is openai-compatible and its
\* explicitly configured dimension differs.
DimensionDiffers(prev, next) ==
    \/ /\ EffectiveModel(prev) # EffectiveModel(next)
       /\ \/ ImpliedDimension(prev) = None
          \/ ImpliedDimension(next) = None
          \/ ImpliedDimension(prev) # ImpliedDimension(next)
    \/ /\ prev.embedderProvider = "openai-compatible"
       /\ next.embedderProvider = "openai-compatible"
       /\ prev.openAiCompatibleModelDimension # next.openAiCompatibleModelDimension

\* C8: when rules 1-3 do not apply and the feature is enabled on either side,
\* the result is true exactly if the provider differs, or an authentication
\* or connection field (an API key, a base URL, the vector-store URL, the
\* vector-store API key) differs as a string, or the vector dimension
\* differs; a change that leaves all of these equal returns false.
C8_ComparisonStepDecides ==
    LET prev == cfgLast.prev
        next == previousConfigSnapshot(mgr)
    IN  ( /\ Decided
          /\ ~((~prev.enabled \/ ~prev.configured) /\ next.enabled /\ next.configured)
          /\ ~(~prev.enabled /\ ~next.enabled)
          /\ ~(~prev.configured /\ ~next.configured) )
        => ( cfgLast.result <=>
               \/ prev.embedderProvider # next.embedderProvider
               \/ ConnectionDiffers(prev, next)
               \/ DimensionDiffers(prev, next) )

\* C9 as stated: with both sides configured and the feature enabled on either
\* side, an unresolvable dimension on either side gives true, also when the
\* unresolvable (provider, modelId) is the same on both sides.
C9_UnresolvableAlwaysRestarts ==
    ( /\ Decided
      /\ cfgLast.prev.configured /\ isConfigured(mgr)
      /\ cfgLast.prev.enabled \/ mgr.isEnabled
      /\ ImpliedDimension(cfgLast.prev) = None \/ ImpliedDimension(mgr) = None )
    => cfgLast.result

\* C9 amended: with both sides configured and the feature enabled on either
\* side, an unresolvable dimension on either side gives true provided the
\* effective (provider, modelId) differs between the two sides; when it is
\* the same on both sides, the feature is enabled on both, and no provider,
\* connection field or explicit dimension differs, the result is false.
C9_UnresolvablePairChangeRestarts ==
    LET prev == cfgLast.prev
        next == previousConfigSnapshot(mgr)
        step == /\ Decided
                /\ prev.configured /\ next.configured
                /\ prev.enabled \/ next.enabled
    IN  /\ ( /\ step
             /\ ImpliedDimension(prev) = None \/ ImpliedDimension(mgr) = None
             /\ EffectiveModel(prev) # EffectiveModel(mgr) )
           => cfgLast.result
        /\ ( /\ step
             /\ prev.enabled /\ next.enabled
             /\ EffectiveModel(prev) = EffectiveModel(mgr)
             /\ ~ConnectionDiffers(prev, next)
             /\ prev.openAiCompatibleModelDimension = next.openAiCompatibleModelDimension )
           => ~cfgLast.result

\* A reload, enabled and configured before and after, that changed nothing
\* but the model id, to one the catalog does not know, reported a restart.
C9_Witness ==
    /\ cfgLast.op = "loadConfiguration"
    /\ cfgLast.prev.enabled /\ cfgLast.prev.configured
    /\ mgr.isEnabled /\ isConfigured(mgr)
    /\ ImpliedDimension(mgr) = None
    /\ ImpliedDimension(cfgLast.prev) # None
    /\ [ cfgLast.prev EXCEPT !.modelId = mgr.modelId ] = previousConfigSnapshot(mgr)
    /\ cfgLast.result

\* C10: the result does not depend on searchMinScore, searchMaxResults or
\* rootPath - the same call with other values of these on either side gives
\* the same result - and a reload that changed only these returns false.
C10_MinorFieldsDoNotMatter ==
    Decided =>
      /\ \A rp, rn \in SettingValues("referenceIndexRootPath"),
            sc \in SettingValues("referenceIndexSearchMinScore"),
            mx \in SettingValues("referenceIndexSearchMaxResults") :
            doesConfigChangeRequireRestart(
                [ cfgLast.prev EXCEPT !.rootPath = rp ],
                [ mgr EXCEPT !.rootPath = rn, !.searchMinScore = sc,
                             !.searchMaxResults = mx ]) = cfgLast.result
      /\ ( cfgLast.op = "loadConfiguration" /\ OnlyMinorFieldsDiffer(cfgLast.before, mgr) )
         => ~cfgLast.result

\* A reload of an enabled and configured feature that changed the root path
\* and the score threshold, and nothing else, reported no restart.
C10_Witness ==
    /\ cfgLast.op = "loadConfiguration"
    /\ mgr.isEnabled /\ isConfigured(mgr)
    /\ OnlyMinorFieldsDiffer(cfgLast.before, mgr)
    /\ cfgLast.before.rootPath # mgr.rootPath
    /\ cfgLast.before.searchMinScore # mgr.searchMinScore
    /\ ~cfgLast.result

\* C11: a reload reports a restart exactly if its new state is enabled and
\* configured and either the old state was not, or the provider, a credential
\* or connection field, or the vector dimension changed; every other reload,
\* in particular one into a disabled or unconfigured state, reports false.
C11_RestartExactlyIntoOrInsideReady ==
    LET prev == cfgLast.prev
        next == previousConfigSnapshot(mgr)
    IN  cfgLast.op = "loadConfiguration" =>
          ( cfgLast.result <=>
              /\ next.enabled /\ next.configured
              /\ \/ ~(prev.enabled /\ prev.configured)
                 \/ prev.embedderProvider # next.embedderProvider
                 \/ ConnectionDiffers(prev, next)
                 \/ DimensionDiffers(prev, next) )

\* The stored fields a provider requires, all non-empty.
RequiredFieldsSet(provider, st) ==
    /\ st.referenceIndexQdrantUrl # ""
    /\ CASE provider = "openai" -> st.codeIndexOpenAiKey # ""
         [] provider = "ollama" -> st.referenceIndexEmbedderBaseUrl # ""
         [] provider = "openai-compatible" ->
                /\ st.referenceIndexOpenAiCompatibleBaseUrl # ""
                /\ st.referenceIndexOpenAiCompatibleApiKey # ""
         [] provider = "gemini" -> st.referenceIndexGeminiApiKey # ""

\* The stored fields that belong to a provider alone.
FieldsOf(provider) ==
    CASE provider = "openai" -> {"codeIndexOpenAiKey"}
      [] provider = "ollama" -> {"referenceIndexEmbedderBaseUrl"}
      [] provider = "openai-compatible" ->
             {"referenceIndexOpenAiCompatibleBaseUrl", "referenceIndexOpenAiCompatibleApiKey",
              "referenceIndexOpenAiCompatibleModelDimension"}
      [] provider = "gemini" -> {"referenceIndexGeminiApiKey"}

\* C12: for the settings in storage, isConfigured of the manager loaded from
\* them is true exactly if the fields the active provider requires are all
\* non-empty (openai: OpenAI key and Qdrant URL; ollama: base URL and Qdrant
\* URL; openai-compatible: base URL, API key and Qdrant URL; gemini: Gemini
\* key and Qdrant URL), and no field of another provider changes the result.
C12_ConfiguredIffRequiredFields ==
    store # <<>> =>
      LET m == _loadAndSetConfiguration(store)
      IN  /\ isConfigured(m) <=> RequiredFieldsSet(m.embedderProvider, store)
          /\ \A p \in Providers \ {m.embedderProvider} :
               \A k \in FieldsOf(p) : \A v \in SettingValues(k) :
                  isConfigured(_loadAndSetConfiguration([store EXCEPT ![k] = v]))
                    = isConfigured(m)

\* A reload left an openai-compatible manager configured while the OpenAI key
\* is empty.
C12_Witness ==
    /\ cfgLast.op = "loadConfiguration"
    /\ mgr = _loadAndSetConfiguration(store)
    /\ mgr.embedderProvider = "openai-compatible"
    /\ isConfigured(mgr)
    /\ store.codeIndexOpenAiKey = ""

\* C13 as stated: with a stored provider outside the four supported ones,
\* isConfigured of the manager loaded from storage is false, whatever keys and
\* URLs are stored.
C13_UnsupportedProviderUnconfigured ==
    ( store # <<>> /\ store.referenceIndexEmbedderProvider \notin Providers )
    => ~isConfigured(_loadAndSetConfiguration(store))

\* C13 amended: a stored provider outside the four supported ones is loaded
\* as openai, and isConfigured is then true exactly if the OpenAI key and the
\* Qdrant URL are both non-empty.
C13_UnsupportedProviderIsOpenAi ==
    ( store # <<>> /\ store.referenceIndexEmbedderProvider \notin Providers )
    => LET m == _loadAndSetConfiguration(store)
       IN  /\ m.embedderProvider = "openai"
           /\ isConfigured(m) <=>
                (store.codeIndexOpenAiKey # "" /\ store.referenceIndexQdrantUrl # "")

\* A reload with an unsupported provider stored left the manager configured.
C13_Witness ==
    /\ cfgLast.op = "loadConfiguration"
    /\ mgr = _loadAndSetConfiguration(store)
    /\ store.referenceIndexEmbedderProvider \notin Providers
    /\ isConfigured(mgr)

(***************************************************************************)
(* services/code-index/service-factory.ts                                  *)
(*                                                                         *)
(* The factory reads its configuration through getConfig() and             *)
(* isFeatureConfigured of the config manager.  A constructed object is a   *)
(* record of the constructor's arguments; the constructors themselves are  *)
(* taken not to throw.                                                     *)
(***************************************************************************)
GEMINI_DIMENSION == 768

\* getConfig(): the fields of the manager the factory reads.
getConfig(m) ==
    [ isEnabled |-> m.isEnabled,
      isConfigured |-> isConfigured(m),
      embedderProvider |-> m.embedderProvider,
      modelId |-> m.modelId,
      openAiOptions |-> m.openAiOptions,
      ollamaOptions |-> m.ollamaOptions,
      openAiCompatibleOptions |-> m.openAiCompatibleOptions,
      geminiOptions |-> m.geminiOptions,
      qdrantUrl |-> m.qdrantUrl,
      qdrantApiKey |-> m.qdrantApiKey,
      rootPath |-> m.rootPath ]

\* What a factory method does: the object it returns, or the error it throws.
Returned(object) == [ threw |-> "none", object |-> Some(object) ]
Thrown(message) == [ threw |-> message, object |-> None ]

createEmbedder(config) ==
    LET provider == config.embedderProvider
    IN  IF provider = "openai"
        THEN IF config.openAiOptions.openAiNativeApiKey = ""
             THEN Thrown("OpenAI configuration missing for embedder creation")
             ELSE Returned([ class |-> "OpenAiEmbedder",
                             apiKey |-> config.openAiOptions.openAiNativeApiKey,
                             baseUrl |-> "",
                             modelId |-> config.modelId ])
        ELSE IF provider = "ollama"
        THEN IF config.ollamaOptions.ollamaBaseUrl = ""
             THEN Thrown("Ollama configuration missing for embedder creation")
             ELSE Returned([ class |-> "CodeIndexOllamaEmbedder",
                             apiKey |-> "",
                             baseUrl |-> config.ollamaOptions.ollamaBaseUrl,
                             modelId |-> config.modelId ])
        ELSE IF provider = "openai-compatible"
        THEN IF \/ ~IsSome(config.openAiCompatibleOptions)
                \/ config.openAiCompatibleOptions[1].baseUrl = ""
                \/ config.openAiCompatibleOptions[1].apiKey = ""
             THEN Thrown("OpenAI Compatible configuration missing for embedder creation")
             ELSE Returned([ class |-> "OpenAICompatibleEmbedder",
                             apiKey |-> config.openAiCompatibleOptions[1].apiKey,
                             baseUrl |-> config.openAiCompatibleOptions[1].baseUrl,
                             modelId |-> config.modelId ])
        ELSE IF provider = "gemini"
        THEN IF ~IsSome(config.geminiOptions) \/ config.geminiOptions[1].apiKey = ""
             THEN Thrown("Gemini configuration missing for embedder creation")
             ELSE Returned([ class |-> "GeminiEmbedder",
                             apiKey |-> config.geminiOptions[1].apiKey,
                             baseUrl |-> "",
                             modelId |-> None ])
        ELSE Thrown("Invalid embedder type configured")

\* vectorSize with the explicit dimension taken whenever it is set.
vectorSize_ExplicitUnchecked(config) ==
    LET provider == config.embedderProvider
        modelId == IF IsSome(config.modelId) THEN config.modelId[1]
                   ELSE getDefaultModelId(provider)
        explicit == IF IsSome(config.openAiCompatibleOptions)
                    THEN config.openAiCompatibleOptions[1].modelDimension ELSE None
    IN  IF provider = "openai-compatible"
        THEN IF IsSome(explicit) THEN explicit ELSE getModelDimension(provider, modelId)
        ELSE IF provider = "gemini" THEN Some(GEMINI_DIMENSION)
        ELSE getModelDimension(provider, modelId)

\* createVectorStore: the `vectorSize` it resolves, undefined as None.
vectorSize(config) ==
    LET provider == config.embedderProvider
        modelId == IF IsSome(config.modelId) THEN config.modelId[1]
                   ELSE getDefaultModelId(provider)
        explicit == IF IsSome(config.openAiCompatibleOptions)
                    THEN config.openAiCompatibleOptions[1].modelDimension ELSE None
    IN  IF provider = "openai-compatible"
        THEN IF IsSome(explicit) /\ explicit[1] # 0 /\ explicit[1] > 0
             THEN explicit
             ELSE getModelDimension(provider, modelId)
        ELSE IF provider = "gemini" THEN Some(GEMINI_DIMENSION)
        ELSE getModelDimension(provider, modelId)

createVectorStore(config) ==
    IF vectorSize(config) = None
    THEN Thrown("Could not determine vector dimension")
    ELSE IF config.qdrantUrl = ""
    THEN Thrown("Qdrant URL missing for vector store creation")
    ELSE Returned([ class |-> "QdrantVectorStore",
                    url |-> config.qdrantUrl,
                    vectorSize |-> vectorSize(config)[1],
                    apiKey |-> config.qdrantApiKey ])

\* createServices: the objects constructed, in order, and what is returned
\* or thrown.
createServices(m) ==
    LET config == getConfig(m)
        e == createEmbedder(config)
        v == createVectorStore(config)
    IN  IF ~isConfigured(m)
        THEN [ constructed |-> <<>>, returned |-> None,
               threw |-> "Cannot create services: Code indexing is not properly configured" ]
        ELSE IF e.threw # "none"
        THEN [ constructed |-> <<>>, returned |-> None, threw |-> e.threw ]
        ELSE IF v.threw # "none"
        THEN [ constructed |-> <<e.object[1]>>, returned |-> None, threw |-> v.threw ]
        ELSE [ constructed |-> << e.object[1], v.object[1],
                                  [class |-> "CompositeCodeParser"],
                                  [class |-> "DirectoryScanner"],
                                  [class |-> "FileWatcher"] >>,
               returned |-> Some([ embedder |-> e.object[1], vectorStore |-> v.object[1],
                                   parser |-> "CompositeCodeParser",
                                   scanner |-> "DirectoryScanner",
                                   fileWatcher |-> "FileWatcher" ]),
               threw |-> "none" ]

(***************************************************************************)
(* FactorySpec: the factory's methods applied to a manager loaded from any *)
(* stored settings.  `factory` holds the most recent call and its outcome. *)
(***************************************************************************)
FactorySettingValues(key) ==
    CASE key = "referenceIndexEmbedderProvider" ->
            {"openai", "ollama", "openai-compatible", "gemini", "bedrock"}
      [] key = "referenceIndexEmbedderModelId" ->
            {"", "text-embedding-3-small", "text-embedding-3-large", "custom-model"}
      [] key = "referenceIndexQdrantUrl" -> {"", "http://localhost:6333"}
      [] key = "codeIndexOpenAiKey" -> {"", "sk-1"}
      [] key = "referenceIndexEmbedderBaseUrl" -> {"", "http://o1"}
      [] key = "referenceIndexOpenAiCompatibleBaseUrl" -> {"", "http://c1"}
      [] key = "referenceIndexOpenAiCompatibleApiKey" -> {"", "ck-1"}
      [] key = "referenceIndexOpenAiCompatibleModelDimension" ->
            {None, Some(-1), Some(0), Some(768), Some(1536)}
      [] key = "referenceIndexGeminiApiKey" -> {"", "gk-1"}
      [] key = "referenceIndexEnabled" -> {TRUE}
      [] OTHER -> {DefaultSettings[key]}

FactorySettings ==
    [ referenceIndexEnabled : FactorySettingValues("referenceIndexEnabled"),
      referenceIndexRootPath : FactorySettingValues("referenceIndexRootPath"),
      referenceIndexQdrantUrl : FactorySettingValues("referenceIndexQdrantUrl"),
      referenceIndexEmbedderProvider : FactorySettingValues("referenceIndexEmbedderProvider"),
      referenceIndexEmbedderBaseUrl : FactorySettingValues("referenceIndexEmbedderBaseUrl"),
      referenceIndexEmbedderModelId : FactorySettingValues("referenceIndexEmbedderModelId"),
      referenceIndexSearchMinScore : FactorySettingValues("referenceIndexSearchMinScore"),
      referenceIndexSearchMaxResults : FactorySettingValues("referenceIndexSearchMaxResults"),
      codeIndexOpenAiKey : FactorySettingValues("codeIndexOpenAiKey"),
      codeIndexQdrantApiKey : FactorySettingValues("codeIndexQdrantApiKey"),
      referenceIndexOpenAiCompatibleBaseUrl :
          FactorySettingValues("referenceIndexOpenAiCompatibleBaseUrl"),
      referenceIndexOpenAiCompatibleApiKey :
          FactorySettingValues("referenceIndexOpenAiCompatibleApiKey"),
      referenceIndexOpenAiCompatibleModelDimension :
          FactorySettingValues("referenceIndexOpenAiCompatibleModelDimension"),
      referenceIndexGeminiApiKey : FactorySettingValues("referenceIndexGeminiApiKey") ]

FactoryInit ==
    /\ store \in FactorySettings
    /\ mgr = _loadAndSetConfiguration(store)
    /\ edits = 0
    /\ cfgLast = <<>>
    /\ loading = <<>>
    /\ factory = <<>>
    /\ pipeline = <<>>
    /\ NoVectorStore
    /\ env = NoEnv
    /\ configManager = <<>>
    /\ qdrantClient = 0
    /\ embedder = FALSE
    /\ inits = <<>>
    /\ pending = <<>>
    /\ last = NoCall
    /\ lastSetup = <<>>

createEmbedderCalled ==
    /\ factory' = [ op |-> "createEmbedder",
                    constructed |-> IF createEmbedder(getConfig(mgr)).threw = "none"
                                    THEN <<createEmbedder(getConfig(mgr)).object[1]>>
                                    ELSE <<>>,
                    returned |-> createEmbedder(getConfig(mgr)).object,
                    threw |-> createEmbedder(getConfig(mgr)).threw ]
    /\ UNCHANGED <<mem0Vars, cfgVars, pipeline, storeVars>>

createVectorStoreCalled ==
    /\ factory' = [ op |-> "createVectorStore",
                    constructed |-> IF createVectorStore(getConfig(mgr)).threw = "none"
                                    THEN <<createVectorStore(getConfig(mgr)).object[1]>>
                                    ELSE <<>>,
                    returned |-> createVectorStore(getConfig(mgr)).object,
                    threw |-> createVectorStore(getConfig(mgr)).threw ]
    /\ UNCHANGED <<mem0Vars, cfgVars, pipeline, storeVars>>

createServicesCalled ==
    /\ factory' = [ op |-> "createServices",
                    constructed |-> createServices(mgr).constructed,
                    returned |-> createServices(mgr).returned,
                    threw |-> createServices(mgr).threw ]
    /\ UNCHANGED <<mem0Vars, cfgVars, pipeline, storeVars>>

FactoryNext ==
    \/ createEmbedderCalled
    \/ createVectorStoreCalled
    \/ createServicesCalled

FactorySpec == FactoryInit /\ [][FactoryNext]_vars

ClassesOf(objects) == [ i \in DOMAIN objects |-> objects[i].class ]

\* C14: after every createServices call, either all five services were
\* constructed and returned, or the call threw and constructed nothing; and
\* when isConfigured is false it threw having constructed nothing.
C14_AllOrNothing ==
    (factory # <<>> /\ factory.op = "createServices") =>
        /\ \/ /\ factory.threw = "none"
              /\ IsSome(factory.returned)
              /\ ClassesOf(factory.constructed) \in
                    { <<e, "QdrantVectorStore", "CompositeCodeParser",
                        "DirectoryScanner", "FileWatcher">> :
                      e \in {"OpenAiEmbedder", "CodeIndexOllamaEmbedder",
                             "OpenAICompatibleEmbedder", "GeminiEmbedder"} }
           \/ /\ factory.threw # "none"
              /\ factory.returned = None
              /\ factory.constructed = <<>>
        /\ ~isConfigured(mgr) => factory.threw # "none" /\ factory.constructed = <<>>

\* createServices on an unconfigured manager throws before constructing anything.
C14_UnconfiguredConstructsNothing ==
    (factory # <<>> /\ factory.op = "createServices" /\ ~isConfigured(mgr)) =>
        /\ factory.threw = "Cannot create services: Code indexing is not properly configured"
        /\ factory.constructed = <<>>

\* createServices threw after it had constructed an embedder.
C14_EmbedderWithoutStore ==
    /\ factory # <<>> /\ factory.op = "createServices"
    /\ isConfigured(mgr)
    /\ factory.threw # "none"
    /\ Len(factory.constructed) = 1

\* The dimension the catalog gives for the manager's provider and its model
\* id, or the provider's default model when no model id is set.
CatalogDimension(m) ==
    getModelDimension(m.embedderProvider,
                      IF IsSome(m.modelId) THEN m.modelId[1]
                      ELSE getDefaultModelId(m.embedderProvider))

\* The vector size the manager's configuration stands for.
ExpectedVectorSize(m) ==
    IF m.embedderProvider = "openai-compatible"
    THEN IF IsSome(CompatibleModelDimension(m)) /\ CompatibleModelDimension(m)[1] > 0
         THEN CompatibleModelDimension(m)
         ELSE CatalogDimension(m)
    ELSE IF m.embedderProvider = "gemini" THEN Some(768)
    ELSE CatalogDimension(m)

\* C15: after every createVectorStore call: when no dimension is resolved
\* (openai-compatible: the explicit dimension if positive, else the catalog
\* dimension; gemini: 768; others: the catalog dimension) or the Qdrant URL
\* is empty, the call threw and constructed no store; otherwise it returned
\* a store of exactly the resolved size for the configured URL.
C15_VectorSizeResolution ==
    (factory # <<>> /\ factory.op = "createVectorStore") =>
        IF ExpectedVectorSize(mgr) = None \/ mgr.qdrantUrl = ""
        THEN /\ factory.threw # "none"
             /\ factory.returned = None
             /\ factory.constructed = <<>>
        ELSE /\ factory.threw = "none"
             /\ IsSome(factory.returned)
             /\ factory.constructed = <<factory.returned[1]>>
             /\ factory.returned[1].class = "QdrantVectorStore"
             /\ factory.returned[1].vectorSize = ExpectedVectorSize(mgr)[1]
             /\ factory.returned[1].url = mgr.qdrantUrl

\* An openai-compatible configuration whose explicit dimension is set but
\* not positive got a store of the catalog dimension of its model.
C15_Witness ==
    /\ factory # <<>> /\ factory.op = "createVectorStore"
    /\ mgr.embedderProvider = "openai-compatible"
    /\ IsSome(CompatibleModelDimension(mgr))
    /\ CompatibleModelDimension(mgr)[1] <= 0
    /\ mgr.modelId = Some("text-embedding-3-large")
    /\ IsSome(factory.returned)
    /\ factory.returned[1].vectorSize = 3072

(***************************************************************************)
(* PipelineSpec: settings edits and configuration reloads, with the        *)
(* running services rebuilt through the factory exactly when a reload      *)
(* reports requiresRestart.  `pipeline` holds the services that are        *)
(* running: what createServices returned at the last rebuild, or None      *)
(* when that rebuild threw or none has happened.                           *)
(***************************************************************************)
PipelineInit ==
    /\ env = NoEnv
    /\ configManager = <<>>
    /\ qdrantClient = 0
    /\ embedder = FALSE
    /\ inits = <<>>
    /\ pending = <<>>
    /\ last = NoCall
    /\ lastSetup = <<>>
    /\ store \in InitialSettings
    /\ mgr = _loadAndSetConfiguration(store)
    /\ edits = 0
    /\ cfgLast = [ op |-> "constructor", prev |-> previousConfigSnapshot(mgr),
                   before |-> mgr, result |-> FALSE ]
    /\ loading = <<>>
    /\ factory = <<>>
    /\ pipeline = IF mgr.isEnabled /\ isConfigured(mgr)
                  THEN createServices(mgr).returned ELSE None
    /\ NoVectorStore

\* A settings change is handled: the configuration is reloaded and the
\* services are rebuilt when, and only when, the reload asks for a restart.
handleSettingsChange ==
    LET snapshot == previousConfigSnapshot(mgr)
        loaded == _loadAndSetConfiguration(store)
        requiresRestart == doesConfigChangeRequireRestart(snapshot, loaded)
    IN  /\ mgr' = loaded
        /\ cfgLast' = [ op |-> "loadConfiguration", prev |-> snapshot, before |-> mgr,
                        result |-> requiresRestart ]
        /\ pipeline' = IF requiresRestart THEN createServices(loaded).returned
                       ELSE pipeline
        /\ UNCHANGED <<store, edits, loading, factory>>
        /\ UNCHANGED <<mem0Vars, storeVars>>

PipelineNext ==
    \/ \E k \in SettingKeys : \E v \in SettingValues(k) : SettingChanged(k, v)
    \/ handleSettingsChange

PipelineSpec == PipelineInit /\ [][PipelineNext]_vars

\* The provider, credentials, connection fields and vector dimension a set
\* of services was built with.
BuiltWith(services) ==
    [ provider |-> services.embedder.class,
      apiKey |-> services.embedder.apiKey,
      baseUrl |-> services.embedder.baseUrl,
      qdrantUrl |-> services.vectorStore.url,
      qdrantApiKey |-> services.vectorStore.apiKey,
      vectorSize |-> services.vectorStore.vectorSize ]

\* C16: whenever the manager's configuration is enabled and configured and
\* the factory resolves services from it, the running pipeline exists and
\* was built with the same provider, credentials, connection fields and
\* vector dimension as those services.
C16_PipelineMatchesConfiguration ==
    (mgr.isEnabled /\ isConfigured(mgr) /\ IsSome(createServices(mgr).returned)) =>
        /\ IsSome(pipeline)
        /\ BuiltWith(pipeline[1]) = BuiltWith(createServices(mgr).returned[1])

\* The same with the embedder's API key left out of the comparison when the
\* provider is gemini.
C16_MatchesUpToGeminiKey ==
    (mgr.isEnabled /\ isConfigured(mgr) /\ IsSome(createServices(mgr).returned)) =>
        /\ IsSome(pipeline)
        /\ LET built == BuiltWith(pipeline[1])
               now == BuiltWith(createServices(mgr).returned[1])
           IN  IF now.provider = "GeminiEmbedder"
               THEN [built EXCEPT !.apiKey = ""] = [now EXCEPT !.apiKey = ""]
               ELSE built = now

\* A reload between two enabled and configured gemini configurations left a
\* pipeline running whose embedder holds another API key than the manager.
C16_StaleGeminiKey ==
    /\ cfgLast.op = "loadConfiguration"
    /\ cfgLast.prev.enabled /\ cfgLast.prev.configured
    /\ mgr.isEnabled /\ isConfigured(mgr)
    /\ mgr.embedderProvider = "gemini"
    /\ IsSome(pipeline)
    /\ pipeline[1].embedder.class = "GeminiEmbedder"
    /\ pipeline[1].embedder.apiKey # GeminiApiKey(mgr)

(***************************************************************************)
(* Mem0QdrantClient (the vector store adapter of the memory client)        *)
(*                                                                         *)
(* The Qdrant server holds at most one collection under the adapter's      *)
(* collection name: `collection` is <<>> or <<[size, distance, points]>>,  *)
(* where size is the collection's vector size (undefined for a collection  *)
(* of named vectors).  A vector is [len, dir]: its length and its          *)
(* direction; scores are cosine similarities in hundredths.  The server    *)
(* refuses to create a collection that exists, refuses a point or a query  *)
(* whose vector length is not the collection's size, and any request may   *)
(* fail on the way (`fail` names the request that does).                   *)
(***************************************************************************)
MaxMemories == 2    \* point ids in use at one time

VECTOR_SIZE == 1536
DISTANCE_METRIC == "Cosine"
SEARCH_LIMIT == 10
MIN_SCORE == 70

Directions == {"x", "y"}
Lengths == {768, VECTOR_SIZE}
Vectors == [ len : Lengths, dir : Directions ]

\* Cosine similarity of two vectors of one length, in hundredths.
Similarity(v, w) == IF v.dir = w.dir THEN 100 ELSE 80

PointIds == 1..MaxMemories
Contents == {"hello", "world"}

NewCollection == [ size |-> Some(VECTOR_SIZE), distance |-> DISTANCE_METRIC, points |-> {} ]

VsRequests == {"getCollection", "deleteCollection", "createCollection",
               "createPayloadIndex", "upsert", "query", "delete"}
Failures == {"none"} \cup VsRequests

\* The payload fields createPayloadIndexes() indexes, in its order, and the
\* server request that creates the index of each.
indexes == <<"user_id", "agent_id", "created_at", "updated_at">>
PayloadIndexRequests ==
    <<"createPayloadIndex user_id", "createPayloadIndex agent_id",
      "createPayloadIndex created_at", "createPayloadIndex updated_at">>

\* The failures of index creation: of every index ("createPayloadIndex", as
\* when all of them exist already) or of one of them.
IndexFailures ==
    {"createPayloadIndex"} \cup { PayloadIndexRequests[i] : i \in DOMAIN PayloadIndexRequests }

\* One index creation whose failure leaves the loop.
createPayloadIndex_Rethrows(i, fail) ==
    [ request |-> PayloadIndexRequests[i],
      threw |-> fail \in {"createPayloadIndex", PayloadIndexRequests[i]} ]

\* One turn of the loop of createPayloadIndexes(): the request for the i-th
\* index, in a try whose catch only warns.
createPayloadIndex(i, fail) ==
    [ request |-> PayloadIndexRequests[i], threw |-> FALSE ]

\* createPayloadIndexes(), from the i-th index on: the requests it issues
\* and whether an error leaves it.
RECURSIVE createPayloadIndexesFrom(_, _)
createPayloadIndexesFrom(i, fail) ==
    IF i > Len(indexes)
    THEN [ requests |-> <<>>, threw |-> FALSE ]
    ELSE LET one == createPayloadIndex(i, fail)
         IN  IF one.threw
             THEN [ requests |-> <<one.request>>, threw |-> TRUE ]
             ELSE LET rest == createPayloadIndexesFrom(i + 1, fail)
                  IN  [ rest EXCEPT !.requests = <<one.request>> \o @ ]

createPayloadIndexes(fail) == createPayloadIndexesFrom(1, fail)

\* What a call of the adapter did: the server requests it issued, the
\* collection it left, and what it returned or threw.
VsOutcome(requests, coll, ret, threw) ==
    [ requests |-> requests, collection |-> coll, ret |-> ret, threw |-> threw ]

\* The end of initialize(): createPayloadIndexes() and `return created`,
\* after the given requests left the collection coll; an error that leaves
\* createPayloadIndexes() is caught and rethrown by initialize().
EnsureIndexes(requests, coll, created, fail) ==
    LET ix == createPayloadIndexes(fail)
    IN  IF ix.threw
        THEN VsOutcome(requests \o ix.requests, coll, None, "qdrantConnectionFailed")
        ELSE VsOutcome(requests \o ix.requests, coll, Some(created), "none")

\* getCollectionInfo(): the collection, or null on any error.
getCollectionInfo(coll, fail) ==
    IF fail = "getCollection" THEN None ELSE coll

\* initialize() that keeps whatever collection it finds.
initialize_NoSizeCheck(coll, fail) ==
    LET collectionInfo == getCollectionInfo(coll, fail)
    IN  IF collectionInfo = None
        THEN IF fail = "createCollection" \/ coll # None
             THEN VsOutcome(<<"getCollection", "createCollection">>, coll,
                            None, "qdrantConnectionFailed")
             ELSE EnsureIndexes(<<"getCollection", "createCollection">>,
                                Some(NewCollection), TRUE, fail)
        ELSE EnsureIndexes(<<"getCollection">>, coll, FALSE, fail)

\* initialize() whose getCollectionInfo() lets the error of a missing
\* collection through.
initialize_MissingCollectionThrows(coll, fail) ==
    IF getCollectionInfo(coll, fail) = None
    THEN VsOutcome(<<"getCollection">>, coll, None, "qdrantConnectionFailed")
    ELSE IF coll[1].size # Some(VECTOR_SIZE)
    THEN IF fail = "deleteCollection"
         THEN VsOutcome(<<"getCollection", "deleteCollection">>, coll,
                        None, "qdrantConnectionFailed")
         ELSE IF fail = "createCollection"
         THEN VsOutcome(<<"getCollection", "deleteCollection", "createCollection">>, None,
                        None, "qdrantConnectionFailed")
         ELSE EnsureIndexes(<<"getCollection", "deleteCollection", "createCollection">>,
                            Some(NewCollection), TRUE, fail)
    ELSE EnsureIndexes(<<"getCollection">>, coll, FALSE, fail)

\* initialize(): ret is `created`.
initialize(coll, fail) ==
    LET collectionInfo == getCollectionInfo(coll, fail)
    IN  IF collectionInfo = None
        THEN IF fail = "createCollection" \/ coll # None
             THEN VsOutcome(<<"getCollection", "createCollection">>, coll,
                            None, "qdrantConnectionFailed")
             ELSE EnsureIndexes(<<"getCollection", "createCollection">>,
                                Some(NewCollection), TRUE, fail)
        ELSE IF collectionInfo[1].size # Some(VECTOR_SIZE)
        THEN IF fail = "deleteCollection"
             THEN VsOutcome(<<"getCollection", "deleteCollection">>, coll,
                            None, "qdrantConnectionFailed")
             ELSE IF fail = "createCollection"
             THEN VsOutcome(<<"getCollection", "deleteCollection", "createCollection">>, None,
                            None, "qdrantConnectionFailed")
             ELSE EnsureIndexes(<<"getCollection", "deleteCollection", "createCollection">>,
                                Some(NewCollection), TRUE, fail)
        ELSE EnsureIndexes(<<"getCollection">>, coll, FALSE, fail)

\* The server's answer to an upsert of one point: the collection after it,
\* or <<>> when the server refuses.
Upsert(coll, point) ==
    IF coll = None \/ coll[1].size # Some(point.vector[1].len)
    THEN None
    ELSE Some(Some([ coll[1] EXCEPT !.points =
                        { q \in coll[1].points : q.id # point.id }
                            \cup {[ id |-> point.id, vector |-> point.vector[1],
                                    user_id |-> point.user_id, agent_id |-> point.agent_id,
                                    content |-> point.content ]} ]))

\* storeMemory without the test of the vector.
storeMemory_Unchecked(coll, memory, fail) ==
    IF memory.vector = None \/ fail = "upsert" \/ Upsert(coll, memory) = None
    THEN VsOutcome(<<"upsert">>, coll, None, "upsert failed")
    ELSE VsOutcome(<<"upsert">>, Upsert(coll, memory)[1], None, "none")

\* storeMemory(memory): memory.vector is <<>> when the memory has no vector.
storeMemory(coll, memory, fail) ==
    IF memory.vector = None \/ memory.vector[1].len # VECTOR_SIZE
    THEN VsOutcome(<<>>, coll, None, "Memory must have a valid vector of the correct size")
    ELSE IF fail = "upsert" \/ Upsert(coll, memory) = None
    THEN VsOutcome(<<"upsert">>, coll, None, "upsert failed")
    ELSE VsOutcome(<<"upsert">>, Upsert(coll, memory)[1], None, "none")

\* The points the server may answer a query with, best score first: every
\* order of the points that pass the filter and the threshold in which no
\* point precedes a point of higher score, cut at the limit.
Hits(coll, queryVector, userId, agentId, minScore) ==
    { q \in coll[1].points :
        /\ q.user_id = userId /\ q.agent_id = agentId
        /\ Similarity(q.vector, queryVector) >= minScore }

Rankings(hits, queryVector) ==
    { r \in [1..Cardinality(hits) -> hits] :
        /\ \A i, j \in DOMAIN r : i # j => r[i] # r[j]
        /\ \A i, j \in DOMAIN r :
              i < j => Similarity(r[i].vector, queryVector) >= Similarity(r[j].vector, queryVector) }

Min(a, b) == IF a < b THEN a ELSE b

\* searchMemories without the user_id / agent_id filter.
searchMemories_NoFilter(coll, queryVector, userId, agentId, limit, minScore, fail) ==
    IF fail = "query" \/ coll = None \/ coll[1].size # Some(queryVector.len)
    THEN { VsOutcome(<<"query">>, coll, None, "query failed") }
    ELSE { VsOutcome(<<"query">>, coll,
                     Some([ i \in 1..Min(limit, Len(r)) |->
                              [ id |-> r[i].id,
                                score |-> Similarity(r[i].vector, queryVector),
                                payload |-> [ id |-> r[i].id, content |-> r[i].content,
                                              user_id |-> r[i].user_id,
                                              agent_id |-> r[i].agent_id ] ] ]),
                     "none") :
           r \in Rankings({ q \in coll[1].points :
                               Similarity(q.vector, queryVector) >= minScore },
                          queryVector) }

\* searchMemories(queryVector, userId, agentId, limit, minScore): the
\* outcomes the call can have; ret is the array of search results.
searchMemories(coll, queryVector, userId, agentId, limit, minScore, fail) ==
    IF fail = "query" \/ coll = None \/ coll[1].size # Some(queryVector.len)
    THEN { VsOutcome(<<"query">>, coll, None, "query failed") }
    ELSE { VsOutcome(<<"query">>, coll,
                     Some([ i \in 1..Min(limit, Len(r)) |->
                              [ id |-> r[i].id,
                                score |-> Similarity(r[i].vector, queryVector),
                                payload |-> [ id |-> r[i].id, content |-> r[i].content,
                                              user_id |-> r[i].user_id,
                                              agent_id |-> r[i].agent_id ] ] ]),
                     "none") :
           r \in Rankings(Hits(coll, queryVector, userId, agentId, minScore), queryVector) }

\* The default of listMemories' limit.
LIST_LIMIT == 100

\* The points of a set in the order of their ids, in which the server's
\* scroll returns them.
ById(points) ==
    CHOOSE r \in [1..Cardinality(points) -> points] :
        \A i, j \in DOMAIN r : i < j => r[i].id < r[j].id

\* listMemories without the user_id / agent_id filter.
listMemories_NoFilter(coll, userId, agentId, limit, fail) ==
    IF fail = "scroll" \/ coll = None
    THEN VsOutcome(<<"scroll">>, coll, None, "scroll failed")
    ELSE LET r == ById(coll[1].points)
         IN  VsOutcome(<<"scroll">>, coll,
                       Some([ i \in 1..Min(limit, Len(r)) |->
                                [ id |-> r[i].id, content |-> r[i].content,
                                  user_id |-> r[i].user_id, agent_id |-> r[i].agent_id ] ]),
                       "none")

\* listMemories(userId, agentId, limit): ret is the array of memories.
listMemories(coll, userId, agentId, limit, fail) ==
    IF fail = "scroll" \/ coll = None
    THEN VsOutcome(<<"scroll">>, coll, None, "scroll failed")
    ELSE LET r == ById({ q \in coll[1].points :
                           q.user_id = userId /\ q.agent_id = agentId })
         IN  VsOutcome(<<"scroll">>, coll,
                       Some([ i \in 1..Min(limit, Len(r)) |->
                                [ id |-> r[i].id, content |-> r[i].content,
                                  user_id |-> r[i].user_id, agent_id |-> r[i].agent_id ] ]),
                       "none")

\* deleteMemory(memoryId): ret is true, or false when the request failed.
deleteMemory(coll, memoryId, fail) ==
    IF fail = "delete" \/ coll = None
    THEN VsOutcome(<<"delete">>, coll, Some(FALSE), "none")
    ELSE VsOutcome(<<"delete">>,
                   Some([ coll[1] EXCEPT !.points = { q \in @ : q.id # memoryId } ]),
                   Some(TRUE), "none")

(***************************************************************************)
(* VectorStoreSpec: one Mem0QdrantClient of a memory client in local mode, *)
(* with an embedder, against a Qdrant server on which the collection may   *)
(* or may not exist already.  Calls run one at a time.                     *)
(***************************************************************************)
Users == {"u", "v"}

Embed(content) == IF content = "hello" THEN "x" ELSE "y"

\* The Mem0Memory objects storeMemory is called with: a memory without a
\* vector, or with an embedding of its content of either length.
Memories ==
    { m \in [ id : PointIds, vector : {None} \cup { Some(v) : v \in Vectors },
              user_id : Users, agent_id : AgentIds, content : Contents ] :
        IsSome(m.vector) => m.vector[1].dir = Embed(m.content) }

NoPrior == [ op |-> "none", ret |-> None, memory |-> None ]

VsCall(op, memory, outcome, prior) ==
    [ op |-> op, memory |-> memory, requests |-> outcome.requests,
      ret |-> outcome.ret, threw |-> outcome.threw, prior |-> prior ]

ExistingCollections ==
    { Some(NewCollection),
      Some([ size |-> Some(768), distance |-> DISTANCE_METRIC,
             points |-> {[ id |-> 1, vector |-> [len |-> 768, dir |-> "x"],
                           user_id |-> "u", agent_id |-> "a", content |-> "hello" ]} ]),
      Some([ size |-> None, distance |-> DISTANCE_METRIC, points |-> {} ]) }

VectorStoreInit ==
    /\ env = NoEnv
    /\ configManager = <<[DEFAULT_CONFIG EXCEPT !.enabled = TRUE]>>
    /\ qdrantClient = 1
    /\ embedder = TRUE
    /\ inits = <<"pending">>
    /\ pending = <<>>
    /\ last = NoCall
    /\ lastSetup = <<>>
    /\ store = <<>> /\ mgr = <<>> /\ edits = 0 /\ cfgLast = <<>> /\ loading = <<>>
    /\ factory = <<>> /\ pipeline = <<>>
    /\ collection \in {None} \cup ExistingCollections
    /\ embeddingDimension \in Lengths
    /\ vsLast = VsCall("none", None, VsOutcome(<<>>, None, None, "none"), NoPrior)

initializeCall(fail) ==
    LET outcome == initialize(collection, fail)
    IN  /\ collection' = outcome.collection
        /\ vsLast' = VsCall("initialize", None, outcome, NoPrior)
        /\ inits' = <<IF outcome.threw = "none" THEN "done" ELSE "rejected">>
        /\ UNCHANGED <<env, lastSetup, configManager, qdrantClient, embedder, pending>>
        /\ UNCHANGED <<cfgVars, factoryVars, embeddingDimension>>

initializeCalled(fail) == initializeCall(fail) /\ UNCHANGED last

storeMemoryCalled(memory, fail) ==
    LET outcome == storeMemory(collection, memory, fail)
    IN  /\ collection' = outcome.collection
        /\ vsLast' = VsCall("storeMemory", Some(memory), outcome, NoPrior)
        /\ UNCHANGED <<mem0Vars, cfgVars, factoryVars, embeddingDimension>>

deleteMemoryCalled(memoryId, fail) ==
    LET outcome == deleteMemory(collection, memoryId, fail)
    IN  /\ collection' = outcome.collection
        /\ vsLast' = VsCall("deleteMemory", None, outcome, NoPrior)
        /\ UNCHANGED <<mem0Vars, cfgVars, factoryVars, embeddingDimension>>

\* The ids generateMemoryId() can return: ids that no stored memory has.
FreshIds == { i \in PointIds : collection = None \/ \A q \in collection[1].points : q.id # i }

\* store_memory(messages, user_id, agent_id) of a ready client in local
\* mode, for a one-message array: storeMemoryLocal.  ret is its boolean.
storeMemoryLocal(content, user_id, agent_id, emb, id, fail) ==
    LET memory == [ id |-> id, vector |-> Some([len |-> embeddingDimension,
                                                dir |-> Embed(content)]),
                    user_id |-> user_id, agent_id |-> agent_id, content |-> content ]
        outcome == storeMemory(collection, memory, fail)
        failed == VsOutcome(<<>>, collection, Some(FALSE), "none")
    IN  /\ isServiceReady(configManager) /\ configManager[1].mode = "local"
        /\ id \in FreshIds
        /\ IF qdrantClient = 0 \/ ~embedder \/ emb # "ok"
           THEN /\ collection' = collection
                /\ vsLast' = VsCall("store_memory", None, failed, NoPrior)
           ELSE /\ collection' = outcome.collection
                /\ vsLast' = VsCall("store_memory", Some(memory),
                                    [ outcome EXCEPT !.ret = Some(outcome.threw = "none"),
                                                     !.threw = "none" ],
                                    NoPrior)
        /\ UNCHANGED <<mem0Vars, cfgVars, factoryVars, embeddingDimension>>

\* search_memories(query, user_id, agent_id) of a ready client in local
\* mode: searchMemoriesLocal.  ret is the array of memories, or <<>> for null.
searchMemoriesLocal(query, user_id, agent_id, emb, fail) ==
    LET queryVector == [len |-> embeddingDimension, dir |-> Embed(query)]
        asked == [ id |-> 0, vector |-> Some(queryVector), user_id |-> user_id,
                   agent_id |-> agent_id, content |-> query ]
        prior == IF vsLast.op = "store_memory"
                 THEN [ op |-> vsLast.op, ret |-> vsLast.ret, memory |-> vsLast.memory ]
                 ELSE NoPrior
        failed == VsOutcome(<<>>, collection, None, "none")
    IN  /\ isServiceReady(configManager) /\ configManager[1].mode = "local"
        /\ IF qdrantClient = 0 \/ ~embedder \/ emb # "ok"
           THEN vsLast' = VsCall("search_memories", Some([asked EXCEPT !.vector = None]),
                                 failed, prior)
           ELSE \E outcome \in searchMemories(collection, queryVector, user_id, agent_id,
                                              SEARCH_LIMIT, MIN_SCORE, fail) :
                  vsLast' = VsCall("search_memories", Some(asked),
                      [ outcome EXCEPT
                          !.ret = IF outcome.threw # "none" THEN None
                                  ELSE Some([ i \in DOMAIN outcome.ret[1] |->
                                      [ id |-> outcome.ret[1][i].id,
                                        content |-> outcome.ret[1][i].payload.content,
                                        score |-> outcome.ret[1][i].score,
                                        user_id |-> outcome.ret[1][i].payload.user_id,
                                        agent_id |-> outcome.ret[1][i].payload.agent_id ] ]),
                          !.threw = "none" ],
                      prior)
        /\ UNCHANGED collection
        /\ UNCHANGED <<mem0Vars, cfgVars, factoryVars, embeddingDimension>>

VectorStoreNext ==
    \/ \E fail \in {"none", "getCollection", "deleteCollection", "createCollection"}
                       \cup IndexFailures : initializeCalled(fail)
    \/ \E memory \in Memories : \E fail \in {"none", "upsert"} :
          storeMemoryCalled(memory, fail)
    \/ \E id \in PointIds : \E fail \in {"none", "delete"} : deleteMemoryCalled(id, fail)
    \/ \E content \in Contents : \E u \in Users : \E a \in AgentIds :
       \E emb \in EmbOutcomes : \E id \in PointIds : \E fail \in {"none", "upsert"} :
          storeMemoryLocal(content, u, a, emb, id, fail)
    \/ \E query \in Contents : \E u \in Users : \E a \in AgentIds :
       \E emb \in EmbOutcomes : \E fail \in {"none", "query"} :
          searchMemoriesLocal(query, u, a, emb, fail)

VectorStoreSpec == VectorStoreInit /\ [][VectorStoreNext]_vars

(***************************************************************************)
(* Properties of the vector store adapter                                  *)
(***************************************************************************)
Range(seq) == { seq[i] : i \in DOMAIN seq }

\* The step is a call of initialize() / of storeMemory().
InitializeStep == vsLast'.op = "initialize"
StoreMemoryStep == vsLast'.op = "storeMemory"

\* C17: every initialize() that returns a result: when there was no
\* collection, it created an empty one of the configured size with cosine
\* distance and returned true; when there was one of another size, it
\* deleted it, created such a collection and returned true; when there was
\* one of the configured size, it neither deleted nor created, left the
\* collection and its records as they were and returned false.  And every
\* initialize() that requested a deletion, whatever became of the call,
\* found a collection of another size than the configured one.
C17_InitializeCreatesOrRecreates ==
    [][ InitializeStep =>
          /\ IsSome(vsLast'.ret) =>
                IF collection = None
                THEN /\ vsLast'.ret = Some(TRUE)
                     /\ collection' = Some([ size |-> Some(1536), distance |-> "Cosine",
                                             points |-> {} ])
                     /\ "deleteCollection" \notin Range(vsLast'.requests)
                     /\ "createCollection" \in Range(vsLast'.requests)
                ELSE IF collection[1].size # Some(1536)
                THEN /\ vsLast'.ret = Some(TRUE)
                     /\ collection' = Some([ size |-> Some(1536), distance |-> "Cosine",
                                             points |-> {} ])
                     /\ "deleteCollection" \in Range(vsLast'.requests)
                     /\ "createCollection" \in Range(vsLast'.requests)
                ELSE /\ vsLast'.ret = Some(FALSE)
                     /\ collection' = collection
                     /\ "deleteCollection" \notin Range(vsLast'.requests)
                     /\ "createCollection" \notin Range(vsLast'.requests)
          /\ "deleteCollection" \in Range(vsLast'.requests) =>
                collection # None /\ collection[1].size # Some(1536)
      ]_vars

\* initialize() found a collection of another size, deleted and recreated
\* it and returned true.
C17_Witness ==
    /\ vsLast.op = "initialize"
    /\ vsLast.ret = Some(TRUE)
    /\ "deleteCollection" \in Range(vsLast.requests)
    /\ collection = Some(NewCollection)

\* C18: every record of the collection has a vector of the collection's
\* size; and every storeMemory() of a memory whose vector is missing, or is
\* not of the configured size, or is not of the collection's size, throws
\* and leaves the collection as it was - in the first two cases without
\* sending anything to the server.
C18_RecordsShareTheDimension ==
    /\ [](collection # None =>
            \A q \in collection[1].points : collection[1].size = Some(q.vector.len))
    /\ [][ StoreMemoryStep =>
             LET vector == vsLast'.memory[1].vector
             IN  /\ (vector = None \/ vector[1].len # 1536) =>
                        /\ vsLast'.threw # "none"
                        /\ vsLast'.requests = <<>>
                        /\ collection' = collection
                 /\ (vector # None /\ collection # None
                        /\ collection[1].size # Some(vector[1].len)) =>
                        /\ vsLast'.threw # "none"
                        /\ collection' = collection
         ]_vars

\* storeMemory() threw for a vector of length 768 although the collection
\* on the server, which initialize() has not yet recreated, is of size 768.
C18_Witness ==
    /\ vsLast.op = "storeMemory"
    /\ vsLast.memory[1].vector # None
    /\ vsLast.memory[1].vector[1].len = 768
    /\ vsLast.threw = "Memory must have a valid vector of the correct size"
    /\ collection # None
    /\ collection[1].size = Some(768)
    /\ collection[1].points # {}

\* The last call was a local search_memories that came right after a local
\* store_memory which returned true, for the same user and agent and with a
\* query embedding equal to the stored vector.
RoundTrip ==
    /\ vsLast.op = "search_memories"
    /\ vsLast.prior.op = "store_memory"
    /\ vsLast.prior.ret = Some(TRUE)
    /\ vsLast.memory[1].user_id = vsLast.prior.memory[1].user_id
    /\ vsLast.memory[1].agent_id = vsLast.prior.memory[1].agent_id
    /\ vsLast.memory[1].vector = vsLast.prior.memory[1].vector

Stored == vsLast.prior.memory[1]

\* The records of the collection, other than the stored one, that belong to
\* the same user and agent and have the same vector.
Twins ==
    { q \in collection[1].points :
        /\ q.id # Stored.id
        /\ q.user_id = Stored.user_id /\ q.agent_id = Stored.agent_id
        /\ Some(q.vector) = Stored.vector }

\* C19 as stated: the search of a round trip returns the stored memory as
\* its first result, with a score of at least the minimum score.
C19_RoundTripReturnsStoredFirst ==
    RoundTrip =>
        /\ IsSome(vsLast.ret)
        /\ Len(vsLast.ret[1]) >= 1
        /\ vsLast.ret[1][1].id = Stored.id
        /\ vsLast.ret[1][1].score >= MIN_SCORE

\* C19: the search of a round trip returns null when its request fails;
\* otherwise its first result is a memory of the same user and agent whose
\* vector equals the stored vector, with a score of at least the minimum
\* score, and the first result is the stored memory itself when no other
\* memory of that user and agent has the same vector.
C19_RoundTripReturnsStoredOrTwinFirst ==
    RoundTrip =>
        \/ vsLast.ret = None /\ vsLast.requests = <<"query">>
        \/ /\ IsSome(vsLast.ret)
           /\ Len(vsLast.ret[1]) >= 1
           /\ vsLast.ret[1][1].score >= MIN_SCORE
           /\ vsLast.ret[1][1].user_id = Stored.user_id
           /\ vsLast.ret[1][1].agent_id = Stored.agent_id
           /\ \E q \in collection[1].points :
                 q.id = vsLast.ret[1][1].id /\ Some(q.vector) = Stored.vector
           /\ Twins = {} => vsLast.ret[1][1].id = Stored.id

\* A round trip whose search returned the stored memory first and, after
\* it, an older memory of the same user with another vector.
C19_Witness ==
    /\ RoundTrip
    /\ IsSome(vsLast.ret)
    /\ Len(vsLast.ret[1]) = 2
    /\ vsLast.ret[1][1].id = Stored.id
    /\ vsLast.ret[1][2].score < vsLast.ret[1][1].score

\* A round trip whose search returned first an older memory with the same
\* vector as the stored one.
C19_TwinFirst ==
    /\ RoundTrip
    /\ IsSome(vsLast.ret)
    /\ Len(vsLast.ret[1]) = 2
    /\ vsLast.ret[1][1].id # Stored.id

(***************************************************************************)
(* KeySpec: isValidApiKey of a constructed Mem0ConfigManager applied to    *)
(* undefined, to the empty string and to key strings of every shape.       *)
(***************************************************************************)
KeyInit ==
    /\ env = NoEnv
    /\ configManager = <<NewMem0ConfigManager(env)>>
    /\ qdrantClient = 0
    /\ embedder = FALSE
    /\ inits = <<>>
    /\ pending = <<>>
    /\ last = NoCall
    /\ lastSetup = <<>>
    /\ NoReferenceIndex

isValidApiKeyCalled(apiKey) ==
    /\ configManager # <<>>
    /\ last' = [ op |-> "isValidApiKey", arg |-> apiKey, ret |-> isValidApiKey(apiKey) ]
    /\ UNCHANGED <<cfgVars, factoryVars, storeVars>>
    /\ UNCHANGED <<env, lastSetup, configManager, qdrantClient, embedder, inits, pending>>

KeyNext ==
    \E apiKey \in {None, Some(EmptyString)} \cup { Some(KeyOfShape(d)) : d \in KeyShapes } :
        isValidApiKeyCalled(apiKey)

KeySpec == KeyInit /\ [][KeyNext]_vars

\* C20: isValidApiKey returns false for undefined and for the empty string,
\* and for a key string of any shape it returns true exactly when the prefix
\* is 'mem0-', the body has 52 characters, the body's character is one of
\* [a-zA-Z0-9] and no other character has been put into the body.
C20_AcceptsExactlyWellFormedKeys ==
    last.op = "isValidApiKey" =>
        /\ last.arg \in {None, Some(EmptyString)} => last.ret = FALSE
        /\ \A d \in KeyShapes :
              last.arg = Some(KeyOfShape(d)) =>
                 (last.ret = TRUE <=>
                    /\ d.prefix = <<"m", "e", "m", "0", "-">>
                    /\ d.n = 52
                    /\ d.char \in {"a", "Z", "7"}
                    /\ d.bad = None)

\* isValidApiKey rejected 'MEM0-' followed by 52 alphanumeric characters.
C20_Witness ==
    /\ last.op = "isValidApiKey"
    /\ last.arg = Some(Str(<<"M", "E", "M", "0", "-">>) \o <<Run("Z", 52)>>)
    /\ last.ret = FALSE

\* isValidApiKey accepted a key.
C20_Accepted ==
    /\ last.op = "isValidApiKey"
    /\ last.ret = TRUE

(***************************************************************************)
(* EnvSpec: the client of Spec under every setting of MEM0_API_KEY,        *)
(* MEM0_BASE_URL and MEM0_MODE, configured with base URLs that end in no,  *)
(* one or two slashes.  The manager is constructed by the first            *)
(* configureMem0 call and again by the first one after resetMem0Config.    *)
(***************************************************************************)
EnvSettings ==
    [ MEM0_API_KEY  : {None, Some(EmptyString), Some(ValidKey)},
      MEM0_BASE_URL : {None, Some(<<"http://e", Slash>>)},
      MEM0_MODE     : {None, Some("local"), Some("hosted"), Some("cloud")} ]

EnvBaseUrls ==
    { Some(<<"http://x">>), Some(<<"http://x", Slash>>), Some(<<"http://x", Slash, Slash>>) }

EnvOptions == OptionsOver(EnvBaseUrls, {Some(ValidKey), Some(ShortKey)})

EnvResponses == {"array", "500"}

EnvInit ==
    /\ env \in EnvSettings
    /\ configManager = <<>>
    /\ qdrantClient = 0
    /\ embedder = FALSE
    /\ inits = <<>>
    /\ pending = <<>>
    /\ last = NoCall
    /\ lastSetup = <<>>
    /\ NoReferenceIndex

EnvNext ==
    \/ \E o \in EnvOptions : configureMem0(o, FALSE, None)
    \/ resetMem0Config
    \/ getMem0Mode
    \/ \E u \in UserIds, a \in AgentIds, r \in EnvResponses : search_memories(u, a, r)
    \/ \E u \in UserIds, a \in AgentIds, r \in EnvResponses : store_memory(u, a, r)
    \/ \E m \in MemoryIds, r \in EnvResponses : get_memory(m, r, "ok")
    \/ \E m \in MemoryIds, r \in EnvResponses : delete_memory(m, r, "ok")
    \/ \E u \in UserIds, a \in AgentIds, r \in EnvResponses :
          list_memories(u, a, FALSE, 0, r, "ok")
    \/ \E r \in EnvResponses : health_check(r, "ok")

EnvSpec == EnvInit /\ [][EnvNext]_vars

\* The configured base URL of the call `last` and the URL it requested.
RequestIssued == last.op \in SixOps /\ last.http # <<>>
BaseOf(call) == call.cfgAt[1].baseUrl[1]
EndsInSlash(s) == Len(s) > 0 /\ s[Len(s)] = Slash
\* s without its last character when that is a slash.
Stem(s) == IF EndsInSlash(s) THEN SubSeq(s, 1, Len(s) - 1) ELSE s

\* C21 as stated: every request URL is the base URL without its trailing
\* slash followed by the endpoint, and the base and the endpoint are never
\* joined by '//'.
C21_NeverJoinedByDoubleSlash ==
    RequestIssued =>
        /\ \E path \in PathsOf(last.op) : last.http[1].url = Stem(BaseOf(last)) \o path
        /\ last.http[1].url[Len(Stem(BaseOf(last)))] # Slash

\* C21: exactly one trailing slash of the base URL is stripped before a
\* request URL is built: every request URL is the base URL without its last
\* character when that is a slash, followed by the endpoint; the base and the
\* endpoint are joined by '//' exactly when the base URL ends in two slashes.
C21_OneTrailingSlashStripped ==
    RequestIssued =>
        /\ \E path \in PathsOf(last.op) : last.http[1].url = Stem(BaseOf(last)) \o path
        /\ last.http[1].url[Len(Stem(BaseOf(last)))] = Slash <=>
              EndsWith(BaseOf(last), <<Slash, Slash>>)

\* A request went out under a base URL with one trailing slash, and its URL
\* joins the base and the endpoint by a single slash.
C21_Witness ==
    /\ last.op = "search_memories"
    /\ last.http # <<>>
    /\ BaseOf(last) = <<"http://x", Slash>>
    /\ last.http[1].url = <<"http://x", Slash, "search">>

\* A request went out under a base URL with two trailing slashes.
C21_DoubleSlash ==
    /\ RequestIssued
    /\ BaseOf(last) = <<"http://x", Slash, Slash>>
    /\ last.http[1].url = <<"http://x", Slash, Slash, "health">>

\* C22: the environment has the highest precedence: after every configureMem0
\* call, a base URL, API key or mode (local or hosted) set in the environment
\* is still the effective base URL, API key or mode.
C22_EnvironmentWins ==
    last.op = "configureMem0" =>
        /\ Truthy(env.MEM0_BASE_URL) => configManager[1].baseUrl = env.MEM0_BASE_URL
        /\ Truthy(env.MEM0_API_KEY) => configManager[1].apiKey = env.MEM0_API_KEY
        /\ env.MEM0_MODE \in {Some("local"), Some("hosted")} =>
              configManager[1].mode = env.MEM0_MODE[1]

\* configureMem0 replaced the base URL of the environment by the one of its
\* options.
C22_OptionsReplaceEnvironment ==
    /\ last.op = "configureMem0"
    /\ env.MEM0_BASE_URL = Some(<<"http://e", Slash>>)
    /\ configManager[1].baseUrl = Some(<<"http://x">>)

\* The manager `new Mem0ConfigManager()` builds under the current environment.
FreshManager == NewMem0ConfigManager(env)
ManagerConstructed == configManager # <<>>

C23_KeyWithModeLocal ==
    /\ last.op = "configureMem0"
    /\ env.MEM0_API_KEY = Some(ValidKey)
    /\ env.MEM0_MODE = Some("local")
    /\ configManager = <<FreshManager>>
    /\ configManager[1].mode = "local"

\* C24: in local mode, when the embedder answers without an embedding (the
\* list missing or empty), search_memories returns null, not an empty array,
\* store_memory returns false, and the call reaches the embedder once and the
\* vector store not at all.
C24_NoEmbeddingNoVectorStoreCall ==
    (last.op \in {"search_memories", "store_memory"} /\ last.backend = "embedder_empty") =>
        /\ last.cfgAt[1].mode = "local"
        /\ last.op = "search_memories" => last.ret = "null"
        /\ last.op = "store_memory" => last.ret = "false"
        /\ last.emb = 1
        /\ last.vs = 0

\* A local search got no embedding from the embedder and returned null.
C24_Witness ==
    /\ last.op = "search_memories"
    /\ last.backend = "embedder_empty"
    /\ last.cfgAt[1].mode = "local"
    /\ last.ret = "null"
    /\ last.vs = 0

(***************************************************************************)
(* ReloadSpec: loadConfiguration() in the two steps its only await gives   *)
(* it.  The call captures the previous snapshot and suspends in            *)
(* contextProxy.refreshSecrets(); when that settles it runs                *)
(* _loadAndSetConfiguration() and the restart decision without another     *)
(* await.  While calls are suspended the settings may change and the       *)
(* manager's synchronous readers run.                                      *)
(***************************************************************************)
MaxLoads == 2       \* loadConfiguration() calls suspended at the same time

ReloadKeys ==
    { "referenceIndexEnabled", "referenceIndexEmbedderProvider", "codeIndexOpenAiKey",
      "referenceIndexQdrantUrl" }

ReadOps == {"getConfig", "isFeatureEnabled", "isFeatureConfigured"}

\* What a reader returns from the fields m.
ReadOf(op, m) ==
    CASE op = "isFeatureEnabled" -> m.isEnabled
      [] op = "isFeatureConfigured" -> isConfigured(m)
      [] op = "getConfig" -> getConfig(m)

\* loadConfiguration up to `await this.contextProxy.refreshSecrets()`.
loadConfigurationSuspends_EnabledAssignedEarly ==
    /\ Len(loading) < MaxLoads
    /\ loading' = Append(loading, previousConfigSnapshot(mgr))
    /\ mgr' = [mgr EXCEPT !.isEnabled = store.referenceIndexEnabled]
    /\ UNCHANGED <<store, edits, cfgLast>>
    /\ UNCHANGED <<mem0Vars, factoryVars, storeVars>>

loadConfigurationSuspends ==
    /\ Len(loading) < MaxLoads
    /\ loading' = Append(loading, previousConfigSnapshot(mgr))
    /\ UNCHANGED <<store, mgr, edits, cfgLast>>
    /\ UNCHANGED <<mem0Vars, factoryVars, storeVars>>

\* refreshSecrets() of the suspended call i settles: the rest of
\* loadConfiguration.
loadConfigurationResumes(i) ==
    LET snapshot == loading[i]
        loaded == _loadAndSetConfiguration(store)
    IN  /\ i \in 1..Len(loading)
        /\ mgr' = loaded
        /\ cfgLast' = [ op |-> "loadConfiguration", prev |-> snapshot, before |-> mgr,
                        result |-> doesConfigChangeRequireRestart(snapshot, loaded) ]
        /\ loading' = SubSeq(loading, 1, i - 1) \o SubSeq(loading, i + 1, Len(loading))
        /\ UNCHANGED <<store, edits>>
        /\ UNCHANGED <<mem0Vars, factoryVars, storeVars>>

\* getConfig(), isFeatureEnabled, isFeatureConfigured: synchronous readers.
ReadCalled(op) ==
    /\ cfgLast' = [ op |-> op, prev |-> cfgLast.prev, before |-> mgr,
                    result |-> ReadOf(op, mgr) ]
    /\ UNCHANGED <<store, mgr, edits, loading>>
    /\ UNCHANGED <<mem0Vars, factoryVars, storeVars>>

ReloadNext ==
    \/ \E k \in ReloadKeys : \E v \in SettingValues(k) : SettingChanged(k, v)
    \/ loadConfigurationSuspends
    \/ \E i \in 1..MaxLoads : loadConfigurationResumes(i)
    \/ \E op \in ReadOps : ReadCalled(op)

ReloadSpec == ConfigInit /\ [][ReloadNext]_vars

\* C25: a reader that runs while loadConfiguration is suspended in
\* refreshSecrets() sees the fields of one complete load: suspending changes
\* no field, the fields change only when a suspended call resumes, all at
\* once to what _loadAndSetConfiguration reads from storage at that moment,
\* and a reader returns what the unchanged fields give.
C25_ReadersSeeOneCompleteLoad ==
    [][ /\ Len(loading') > Len(loading) => mgr' = mgr
        /\ mgr' # mgr => /\ Len(loading') < Len(loading)
                         /\ mgr' = _loadAndSetConfiguration(store)
        /\ (cfgLast' # cfgLast /\ cfgLast'.op \in ReadOps) =>
              /\ mgr' = mgr
              /\ cfgLast'.before = mgr
              /\ cfgLast'.result = ReadOf(cfgLast'.op, mgr) ]_vars

\* isFeatureEnabled was read while a loadConfiguration was suspended and the
\* stored flag already differed from the field: it returned the field as it
\* was before the reload.
C25_Witness ==
    /\ cfgLast.op = "isFeatureEnabled"
    /\ loading # <<>>
    /\ store.referenceIndexEnabled # mgr.isEnabled
    /\ cfgLast.result = mgr.isEnabled
    /\ mgr = cfgLast.before

\* C26: no field of the snapshot loadConfiguration captures is undefined:
\* every string field holds a string (empty when the source is absent), the
\* flags hold booleans, and the model id and the model dimension hold a value.
C26_SnapshotFieldsDefined ==
    cfgLast.op = "loadConfiguration" =>
        /\ cfgLast.prev.enabled \in BOOLEAN
        /\ cfgLast.prev.configured \in BOOLEAN
        /\ cfgLast.prev.modelId # None
        /\ cfgLast.prev.openAiCompatibleModelDimension # None

\* loadConfiguration captured a snapshot whose model id and model dimension
\* are both undefined.
C26_UndefinedInSnapshot ==
    /\ cfgLast.op = "loadConfiguration"
    /\ cfgLast.prev.modelId = None
    /\ cfgLast.prev.openAiCompatibleModelDimension = None

\* A reload that found the feature switched off and nothing else changed,
\* after a state in which it was enabled and configured.
DisabledOnly ==
    /\ cfgLast.op = "loadConfiguration"
    /\ cfgLast.before.isEnabled
    /\ isConfigured(cfgLast.before)
    /\ mgr = [cfgLast.before EXCEPT !.isEnabled = FALSE]

\* C27: a reload that finds the feature disabled, after a state in which it
\* was enabled and configured and with every other field unchanged, reports
\* that a restart is required.
C27_DisablingRequiresRestart == DisabledOnly => cfgLast.result = TRUE

\* Such a reload reported that no restart is required.
C27_DisablingWithoutRestart == DisabledOnly /\ cfgLast.result = FALSE

\* A step of loadConfiguration that finds in storage what the fields were
\* last loaded from.
ReloadWithoutChange ==
    /\ cfgLast'.op = "loadConfiguration"
    /\ store' = store
    /\ cfgLast' # cfgLast
    /\ mgr = _loadAndSetConfiguration(store)

\* C28: a reload that finds the settings and secrets the fields were last
\* loaded from, by the previous reload or by the constructor, reports that no
\* restart is required and leaves every field as it was.
C28_ReloadWithoutChangeNoRestart ==
    [][ReloadWithoutChange => (cfgLast'.result = FALSE /\ mgr' = mgr)]_vars

\* An enabled and configured manager whose model has no catalogued dimension
\* reloaded unchanged settings and reported no restart.
C28_Witness ==
    /\ cfgLast.op = "loadConfiguration"
    /\ cfgLast.before = mgr
    /\ mgr = _loadAndSetConfiguration(store)
    /\ mgr.isEnabled
    /\ isConfigured(mgr)
    /\ mgr.modelId = Some("custom-model")
    /\ cfgLast.result = FALSE

\* C29: in local mode delete_memory returns true only if the vector store
\* deleted the point; when the Qdrant deletion fails it returns false.
C29_LocalDeleteReportsFailure ==
    (last.op = "delete_memory" /\ last.vs = 1) =>
        /\ last.ret = "true" => last.backend = "ok"
        /\ last.backend = "vectorstore_error" => last.ret = "false"

\* A local delete_memory whose Qdrant deletion failed returned true.
C29_FailedDeleteReturnsTrue ==
    /\ last.op = "delete_memory"
    /\ last.vs = 1
    /\ last.cfgAt[1].mode = "local"
    /\ last.backend = "vectorstore_error"
    /\ last.ret = "true"

(***************************************************************************)
(* SetupSpec: the client of LocalSpec configured again and again, each     *)
(* call awaited before the next one is made.  lastSetup keeps whether the  *)
(* most recent configureMem0 call found a Qdrant configuration and whether *)
(* it was given an embedder.                                               *)
(***************************************************************************)
SetupOptions == { o \in LocalOptions : o.keys \subseteq {"mode"} }

configureMem0WithSetup(options, localEmbedder, contextProxy) ==
    /\ pending = <<>>
    /\ configureMem0Call(options, localEmbedder, contextProxy)
    /\ lastSetup' = << [ qdrant |-> getQdrantConfigEnabled(contextProxy),
                         localEmbedder |-> localEmbedder ] >>

SetupNext ==
    \/ \E o \in SetupOptions, su \in LocalSetups : configureMem0WithSetup(o, su[1], su[2])
    \/ \E i \in 1..MaxClients, ok \in BOOLEAN : InitializeSettles(i, ok)
    \/ pending = <<>> /\ resetMem0Config
    \/ \E u \in UserIds, a \in AgentIds, r \in LocalResponses : search_memories(u, a, r)
    \/ \E u \in UserIds, a \in AgentIds, r \in LocalResponses : store_memory(u, a, r)
    \/ \E e \in EmbOutcomes, v \in VsOutcomes : LocalResume(e, v)

SetupSpec == LocalInit /\ [][SetupNext]_vars

\* The most recent configureMem0 call found no Qdrant configuration or was
\* given no embedder.
IncompleteSetup ==
    /\ lastSetup # <<>>
    /\ ~lastSetup[1].qdrant \/ ~lastSetup[1].localEmbedder

\* C30: in local mode, when the most recent configureMem0 call found no
\* Qdrant configuration or was given no embedder, search_memories returns
\* null and store_memory returns false, and neither calls the embedder or
\* the vector store, whatever earlier configureMem0 calls supplied.
C30_IncompleteSetupGivesSentinel ==
    ( /\ last.op \in {"search_memories", "store_memory"}
      /\ isServiceReady(last.cfgAt)
      /\ last.cfgAt[1].mode = "local"
      /\ IncompleteSetup ) =>
        /\ last.ret = Sentinel(last.op)
        /\ last.emb = 0
        /\ last.vs = 0

\* After a configureMem0 call that found no Qdrant configuration, a local
\* search went to the embedder and the vector store of an earlier call and
\* returned memories.
C30_EarlierSetupUsed ==
    /\ last.op = "search_memories"
    /\ isServiceReady(last.cfgAt)
    /\ last.cfgAt[1].mode = "local"
    /\ lastSetup # <<>>
    /\ ~lastSetup[1].qdrant
    /\ last.vs = 1
    /\ last.ret = "array"

(***************************************************************************)
(* UpdateSpec: a Mem0ConfigManager on which updateConfig is called with    *)
(* partial updates, one after the other.                                   *)
(***************************************************************************)
UpdateOptions ==
    OptionsOver({Some(<<"http://x", Slash>>)}, {Some(EmptyString), Some(ValidKey)})

updateConfigCalled(updates) ==
    /\ configManager # <<>>
    /\ configManager' = <<updateConfig(configManager[1], updates)>>
    /\ last' = [ op |-> "updateConfig", arg |-> updates, before |-> configManager[1] ]
    /\ UNCHANGED <<cfgVars, factoryVars, storeVars>>
    /\ UNCHANGED <<env, lastSetup, qdrantClient, embedder, inits, pending>>

UpdateNext == \E updates \in UpdateOptions : updateConfigCalled(updates)

UpdateSpec == KeyInit /\ [][UpdateNext]_vars

\* C31: after an update that carries a defined apiKey the mode is hosted
\* when that key is non-empty and local when it is empty, also when the same
\* update names another mode; after an update without a defined apiKey the
\* mode is the one the update names, or the previous one when it names none.
C31_ModeFollowsApiKey ==
    last.op = "updateConfig" =>
        LET updates == last.arg
            keyed == "apiKey" \in updates.keys /\ updates.apiKey # None
        IN  /\ (keyed /\ updates.apiKey # Some(EmptyString)) =>
                  configManager[1].mode = "hosted"
            /\ (keyed /\ updates.apiKey = Some(EmptyString)) =>
                  configManager[1].mode = "local"
            /\ (~keyed /\ "mode" \in updates.keys) => configManager[1].mode = updates.mode
            /\ (~keyed /\ "mode" \notin updates.keys) =>
                  configManager[1].mode = last.before.mode

\* An update carrying a key and naming mode 'local' left the manager hosted.
C31_Witness ==
    /\ last.op = "updateConfig"
    /\ last.arg.keys = {"mode", "apiKey"}
    /\ last.arg.mode = "local"
    /\ last.arg.apiKey = Some(ValidKey)
    /\ configManager[1].mode = "hosted"

(***************************************************************************)
(* InitializeSpec: initialize() of the vector store adapter against a      *)
(* server whose requests may fail, the failing request being recorded      *)
(***************************************************************************)
InitializeFailures ==
    {"none", "getCollection", "deleteCollection", "createCollection"} \cup IndexFailures

\* initialize() during which the server fails the request `fail`; `last`
\* keeps which one and the collection the call found, and the same of the
\* call of initialize() before it.
initializeObserved(fail) ==
    /\ initializeCall(fail)
    /\ last' = [ op |-> "initialize", fail |-> fail, found |-> collection,
                 prior |-> IF last.op = "initialize"
                           THEN Some([ fail |-> last.fail, found |-> last.found ])
                           ELSE None ]

InitializeNext ==
    \/ \E fail \in InitializeFailures : initializeObserved(fail)
    \/ \E id \in PointIds : \E fail \in {"none", "delete"} : deleteMemoryCalled(id, fail)

InitializeSpec == VectorStoreInit /\ [][InitializeNext]_vars

\* The state is the one a call of initialize() left.
InitializeObserved == last.op = "initialize" /\ vsLast.op = "initialize"

\* The requests of a call from the k-th on.
RequestsFrom(requests, k) == SubSeq(requests, k, Len(requests))

\* The call of initialize() recorded in `last` got past its collection
\* requests: none of getCollection, deleteCollection, createCollection made
\* it fail.
CollectionRequestsSucceeded ==
    /\ InitializeObserved
    /\ last.fail # "deleteCollection" \/ "deleteCollection" \notin Range(vsLast.requests)
    /\ last.fail # "createCollection" \/ "createCollection" \notin Range(vsLast.requests)
    /\ ~(last.fail = "getCollection" /\ last.found # None)

\* C32: index creation never makes initialize() fail and never changes the
\* returned created flag: an initialize() during which index creations fail
\* returns what it returns, and leaves the collection it leaves, when none
\* fails; and every initialize() that got past its collection requests
\* ended with one index request for each of user_id, agent_id, created_at
\* and updated_at, in that order, whichever of them failed, and did not
\* throw.
C32_IndexFailuresSwallowed ==
    InitializeObserved =>
        /\ last.fail \in IndexFailures =>
              LET unfailed == initialize(last.found, "none")
              IN  /\ vsLast.ret = unfailed.ret
                  /\ vsLast.threw = unfailed.threw
                  /\ vsLast.requests = unfailed.requests
                  /\ collection = unfailed.collection
        /\ CollectionRequestsSucceeded =>
              /\ vsLast.threw = "none"
              /\ IsSome(vsLast.ret)
              /\ Len(vsLast.requests) > Len(PayloadIndexRequests)
              /\ RequestsFrom(vsLast.requests,
                              Len(vsLast.requests) - Len(PayloadIndexRequests) + 1)
                    = PayloadIndexRequests

\* initialize() found a collection of another size while the creation of
\* the agent_id index failed: it recreated the collection, requested all
\* four indexes and returned true.
C32_Witness ==
    /\ InitializeObserved
    /\ last.fail = "createPayloadIndex agent_id"
    /\ last.found # None
    /\ vsLast.ret = Some(TRUE)
    /\ "createPayloadIndex updated_at" \in Range(vsLast.requests)

\* C32 as the claim has it: every initialize() - also one that a collection
\* request made fail - requests an index for each of the four fields.
C32_EveryInitializeRequestsIndexes ==
    InitializeObserved =>
        /\ last.fail \in IndexFailures => vsLast.threw = "none"
        /\ \A i \in DOMAIN PayloadIndexRequests :
              PayloadIndexRequests[i] \in Range(vsLast.requests)

(***************************************************************************)
(* InitializeFairSpec: initialize() is called again and again, and again   *)
(* and again the server answers its collection requests                    *)
(***************************************************************************)
\* initialize() whose collection requests the server answers.
initializeCompletes == \E fail \in {"none"} \cup IndexFailures : initializeObserved(fail)

InitializeFairSpec == InitializeSpec /\ WF_vars(initializeCompletes)

\* The call of initialize() deleted a collection of another size than the
\* configured one and stopped in createCollection.
Interrupted(call) ==
    /\ call.fail = "createCollection"
    /\ call.found # None
    /\ call.found[1].size # Some(VECTOR_SIZE)

\* The collection exists with the configured dimension.
CollectionReady == collection # None /\ collection[1].size = Some(VECTOR_SIZE)

\* C33: the initialize() that follows one which stopped between deleting a
\* collection of another size and recreating it, and that does not throw,
\* finds no collection, leaves an empty collection of the configured size
\* and returns true; and whenever an initialize() stopped there, under
\* repeated calls of initialize() the collection eventually exists with the
\* configured size, and from then on stays so.
C33_RecreationRecovers ==
    /\ [](InitializeObserved /\ IsSome(last.prior) /\ vsLast.threw = "none" =>
            (Interrupted(last.prior[1]) =>
                /\ last.found = None
                /\ collection = Some(NewCollection)
                /\ vsLast.ret = Some(TRUE)))
    /\ (InitializeObserved /\ Interrupted(last)) ~> CollectionReady
    /\ [](CollectionReady => []CollectionReady)

\* An initialize() that stopped between deletion and recreation was followed
\* by one that created the collection and returned true.
C33_Witness ==
    /\ InitializeObserved
    /\ IsSome(last.prior)
    /\ Interrupted(last.prior[1])
    /\ last.prior[1].found[1].points # {}
    /\ vsLast.ret = Some(TRUE)
    /\ collection = Some(NewCollection)

(***************************************************************************)
(* The dimension of the memory collection                                  *)
(***************************************************************************)
\* C34: once initialize() has completed, the memory collection has the
\* dimension of the vectors the injected embedder produces, and every
\* local-mode store_memory whose embedding was produced passes the
\* adapter's test of the vector and is sent to the collection.
C34_CollectionHasEmbedderDimension ==
    inits = <<"done">> =>
        /\ collection # None
        /\ collection[1].size = Some(embeddingDimension)
        /\ (vsLast.op = "store_memory" /\ IsSome(vsLast.memory)) =>
              "upsert" \in Range(vsLast.requests)

\* After a completed initialize(), store_memory with an embedder of 768
\* dimensions produced the embedding, sent nothing to the collection and
\* returned false.
C34_StoreRejectedForEmbedder ==
    /\ inits = <<"done">>
    /\ embeddingDimension = 768
    /\ collection # None /\ collection[1].size = Some(VECTOR_SIZE)
    /\ vsLast.op = "store_memory"
    /\ IsSome(vsLast.memory)
    /\ vsLast.requests = <<>>
    /\ vsLast.ret = Some(FALSE)

(***************************************************************************)
(* IsolationSpec: store_memory, search_memories and list_memories of a     *)
(* ready local-mode client, for two users and two agents, with an embedder *)
(* of the adapter's dimension                                              *)
(***************************************************************************)
Agents == {"a", "b"}

\* list_memories(user_id, agent_id, limit) of a ready client in local mode:
\* listMemoriesLocal.  ret is the array of memories, or <<>> for null.
listMemoriesLocal(user_id, agent_id, limit, fail) ==
    LET asked == [ id |-> 0, vector |-> None, user_id |-> user_id,
                   agent_id |-> agent_id, content |-> "" ]
        outcome == listMemories(collection, user_id, agent_id, limit, fail)
    IN  /\ isServiceReady(configManager) /\ configManager[1].mode = "local"
        /\ IF qdrantClient = 0
           THEN vsLast' = VsCall("list_memories", Some(asked),
                                 VsOutcome(<<>>, collection, None, "none"), NoPrior)
           ELSE vsLast' = VsCall("list_memories", Some(asked),
                                 [ outcome EXCEPT !.threw = "none" ], NoPrior)
        /\ UNCHANGED collection
        /\ UNCHANGED <<mem0Vars, cfgVars, factoryVars, embeddingDimension>>

IsolationInit == VectorStoreInit /\ embeddingDimension = VECTOR_SIZE

IsolationNext ==
    \/ initializeCalled("none")
    \/ \E u \in Users : \E a \in Agents : \E id \in PointIds :
          storeMemoryLocal("hello", u, a, "ok", id, "none")
    \/ \E query \in Contents : \E u \in Users : \E a \in Agents :
       \E fail \in {"none", "query"} :
          searchMemoriesLocal(query, u, a, "ok", fail)
    \/ \E u \in Users : \E a \in Agents : \E limit \in {1, LIST_LIMIT} :
       \E fail \in {"none", "scroll"} :
          listMemoriesLocal(u, a, limit, fail)

IsolationSpec == IsolationInit /\ [][IsolationNext]_vars

\* C35: every memory that a local-mode search_memories(q, u, a) or
\* list_memories(u, a) returns is a record of the collection whose stored
\* user_id is u and whose stored agent_id is a, and is returned with them.
C35_ResultsBelongToTheAskedPair ==
    (vsLast.op \in {"search_memories", "list_memories"} /\ IsSome(vsLast.ret)) =>
        \A i \in DOMAIN vsLast.ret[1] :
            /\ vsLast.ret[1][i].user_id = vsLast.memory[1].user_id
            /\ vsLast.ret[1][i].agent_id = vsLast.memory[1].agent_id
            /\ \E q \in collection[1].points :
                  /\ q.id = vsLast.ret[1][i].id
                  /\ q.user_id = vsLast.memory[1].user_id
                  /\ q.agent_id = vsLast.memory[1].agent_id

\* list_memories returned a memory while the collection also holds a memory
\* of the same user for another agent.
C35_Witness ==
    /\ vsLast.op = "list_memories"
    /\ IsSome(vsLast.ret)
    /\ Len(vsLast.ret[1]) = 1
    /\ \E q \in collection[1].points :
          /\ q.user_id = vsLast.memory[1].user_id
          /\ q.agent_id # vsLast.memory[1].agent_id

(***************************************************************************)
(* Local-mode operations and the initialize() that configureMem0 started   *)
(***************************************************************************)
\* The step is a store, search, get, delete or list call, or its part after
\* the embedding, that calls the Mem0QdrantClient.
ReachesVectorStore ==
    /\ last' # last
    /\ last'.op \in FiveOps
    /\ last'.vs = 1

\* C36: every local-mode store, search, get, delete or list call that
\* reaches the Mem0QdrantClient finds that the initialize() which
\* configureMem0 started for that client has settled.
C36_OperationsWaitForInitialize ==
    [][ ReachesVectorStore => (qdrantClient # 0 /\ inits[qdrantClient] # "pending") ]_vars

\* store_memory has called the Mem0QdrantClient while its initialize() is
\* still running.
C36_StoreDuringInitialize ==
    /\ last.op = "store_memory"
    /\ last.vs = 1
    /\ qdrantClient # 0
    /\ inits[qdrantClient] = "pending"

(***************************************************************************)
(* Overlapping calls of loadConfiguration                                  *)
(***************************************************************************)
\* Call i of loadConfiguration resumes after the call recorded in cfgLast,
\* with which it overlapped: both took the same snapshot, so call i was
\* suspended before that call resumed, and the stored configuration has not
\* changed since that call loaded it.
ResumesAfterOverlappingLoad(i) ==
    /\ loadConfigurationResumes(i)
    /\ cfgLast.op = "loadConfiguration"
    /\ loading[i] = cfgLast.prev
    /\ mgr = _loadAndSetConfiguration(store)

\* C37: of two overlapping calls of loadConfiguration across one change of
\* the stored configuration at most one reports requiresRestart = true: when
\* the call that resumed first reported it, the other reports false.
C37_OneRestartPerChange ==
    [][ \A i \in 1..Len(loading) :
          (ResumesAfterOverlappingLoad(i) /\ cfgLast.result = TRUE) =>
              cfgLast'.result = FALSE ]_vars

\* A call of loadConfiguration reported requiresRestart = true although the
\* fields it loaded were in force already, put there by an earlier call
\* that resumed while this one was suspended.
C37_RestartForFieldsInForce ==
    /\ cfgLast.op = "loadConfiguration"
    /\ cfgLast.result = TRUE
    /\ cfgLast.before = mgr
    /\ cfgLast.prev # previousConfigSnapshot(mgr)

(***************************************************************************)
(* configureMem0 that raises Mem0InvalidApiKeyError                        *)
(***************************************************************************)
\* The step is a call of configureMem0 that throws Mem0InvalidApiKeyError.
ConfigureRejected ==
    /\ last'.op = "configureMem0"
    /\ last'.threw = "Mem0InvalidApiKeyError"

\* C38: a configureMem0 that raises Mem0InvalidApiKeyError leaves the
\* configuration of an existing manager (enabled, mode, base URL, key) as
\* it was, and leaves a service that was ready ready.
C38_RejectedCallChangesNothing ==
    [][ ConfigureRejected =>
          /\ configManager # <<>> => configManager' = configManager
          /\ isServiceReady(configManager) => isServiceReady(configManager') ]_vars

\* After a configureMem0 that raised Mem0InvalidApiKeyError the manager is
\* enabled in hosted mode with the key that was rejected.
C38_RejectedKeyInForce ==
    /\ last.op = "configureMem0"
    /\ last.threw = "Mem0InvalidApiKeyError"
    /\ configManager # <<>>
    /\ configManager[1].enabled
    /\ configManager[1].mode = "hosted"
    /\ ~isValidApiKey(configManager[1].apiKey)

(***************************************************************************)
(* ToolSpec: the add_memory tool over the client as client.ts builds it    *)
(***************************************************************************)
\* cline.providerRef.deref()?.getState(): undefined, or the provider's state.
ProviderStates ==
    {None} \cup { Some([ mem0Enabled |-> e, mem0ApiServerUrl |-> u ]) :
                    e \in BOOLEAN, u \in {EmptyString, <<"http://x">>} }

\* block.params.memory
ToolMemories == { None, Some(EmptyString), Some(<<"remember">>) }

\* store_memory(messages, user_id, agent_id) of a client without a
\* Mem0QdrantClient, which has no await before its result is fixed.
storeMemoryOutcome(resp) ==
    IF ~isServiceReady(configManager) THEN NotReady("store_memory")
    ELSE IF configManager[1].mode = "hosted"
    THEN HostedBranch("store_memory", configManager[1], "POST", MemoriesEndpoint, resp,
                      "true", "true")
    ELSE Outcome("store_memory", FALSE, "none", Sentinel("store_memory"), "none", "none",
                 <<>>, 0, 0)

\* What a call of addMemoryTool did: the results it pushed, what it did to
\* cline.consecutiveMistakeCount, and its call of store_memory, if any.
ToolOutcome(pushed, mistakes, stored) ==
    [ op |-> "add_memory", pushed |-> pushed, consecutiveMistakeCount |-> mistakes,
      store |-> stored ]

\* addMemoryTool(cline, block, askApproval, handleError, pushToolResult, ...)
addMemoryTool(memory, partial, didApprove, state, resp) ==
    /\ pending = <<>>
    /\ qdrantClient = 0
    /\ last' =
         IF partial THEN ToolOutcome(<<>>, "unchanged", None)
         ELSE IF ~Truthy(memory)
         THEN ToolOutcome(<<"missing parameter">>, "incremented", None)
         ELSE IF ~didApprove THEN ToolOutcome(<<"toolDenied">>, "unchanged", None)
         ELSE IF state = None \/ ~state[1].mem0Enabled
                    \/ state[1].mem0ApiServerUrl = EmptyString
         THEN ToolOutcome(<<"Mem0 is not enabled">>, "unchanged", None)
         ELSE ToolOutcome(<<"memory stored">>, "reset", Some(storeMemoryOutcome(resp)))
    /\ UNCHANGED <<cfgVars, factoryVars, storeVars>>
    /\ UNCHANGED <<env, lastSetup, configManager, qdrantClient, embedder, inits, pending>>

ToolNext ==
    \/ \E o \in Mem0Options, e \in BOOLEAN : configureMem0(o, e, None)
    \/ resetMem0Config
    \/ \E memory \in ToolMemories, partial \in BOOLEAN, didApprove \in BOOLEAN,
          state \in ProviderStates, r \in Responses :
          addMemoryTool(memory, partial, didApprove, state, r)

ToolSpec == Mem0Init /\ [][ToolNext]_vars

\* C39: addMemoryTool pushes "memory stored" only when its store_memory
\* returned true.
C39_StoredOnlyWhenStoreSucceeded ==
    (last.op = "add_memory" /\ "memory stored" \in Range(last.pushed)) =>
        (IsSome(last.store) /\ last.store[1].ret = "true")

\* addMemoryTool pushed "memory stored" although store_memory returned
\* false without sending a request, the service being not ready.
C39_StoredReportedWhileNotReady ==
    /\ last.op = "add_memory"
    /\ last.pushed = <<"memory stored">>
    /\ last.store[1].ret = "false"
    /\ last.store[1].http = <<>>
    /\ ~isServiceReady(configManager)

====
